---- MODULE Spec2Model ----
(***************************************************************************)
(* A model of version_checker (kmfarley11/version-checker): the version    *)
(* locator (_search_or_error), the comparator (compare_versions), the      *)
(* check orchestrator (do_check) and the merge orchestrator (do_merge).    *)
(*                                                                         *)
(* Text is a sequence of one-character strings, so that searching,         *)
(* splitting and parsing are computed the way the Python code computes     *)
(* them.  The two libraries the code calls, re and semver, are modelled by *)
(* what they do on the characters the model's texts use.                   *)
(***************************************************************************)
EXTENDS Integers, Sequences, FiniteSets, TLC

(***************************************************************************)
(* Bounds of the model.                                                    *)
(***************************************************************************)
\* longest search pattern of the locator's specification
MaxPatternLen == 3
\* longest content searched in the locator's specification
MaxContentLen == 3
\* longest file list and regex list handed to do_check
MaxFiles == 3

(***************************************************************************)
(* Text helpers (Python str operations).                                   *)
(***************************************************************************)
Min(a, b) == IF a < b THEN a ELSE b

\* s[i:] of Python, with 1-based i
Drop(s, i) == SubSeq(s, i, Len(s))

\* t occurs in s starting at position i
OccursAt(s, t, i) ==
    /\ i >= 1
    /\ i + Len(t) - 1 <= Len(s)
    /\ \A k \in 1..Len(t) : s[i + k - 1] = t[k]

\* Python: t in s
Contains(s, t) == \E i \in 1..(Len(s) + 1) : OccursAt(s, t, i)

\* the first position from i on at which t occurs in s, 0 when there is none
RECURSIVE FindFrom(_, _, _)
FindFrom(s, t, i) ==
    IF i > Len(s) + 1 THEN 0
    ELSE IF OccursAt(s, t, i) THEN i
    ELSE FindFrom(s, t, i + 1)

\* Python: s.find(t), 1-based, 0 when absent
Find(s, t) == FindFrom(s, t, 1)

\* all texts over alphabet A of length at most n
RECURSIVE TextsUpTo(_, _)
TextsUpTo(A, n) ==
    IF n = 0 THEN {<<>>}
    ELSE LET shorter == TextsUpTo(A, n - 1)
         IN  shorter \cup {Append(s, c) : s \in shorter, c \in A}

Digits == {"0", "1", "2", "3", "4", "5", "6", "7", "8", "9"}
Letters == {"a", "b", "c", "d", "e", "f", "g", "h", "i", "j", "k", "l", "m",
            "n", "o", "p", "q", "r", "s", "t", "u", "v", "w", "x", "y", "z"}

DigitVal(c) ==
    CASE c = "0" -> 0 [] c = "1" -> 1 [] c = "2" -> 2 [] c = "3" -> 3
      [] c = "4" -> 4 [] c = "5" -> 5 [] c = "6" -> 6 [] c = "7" -> 7
      [] c = "8" -> 8 [] c = "9" -> 9

LetterIndex(c) == CHOOSE k \in 1..26 :
    <<"a", "b", "c", "d", "e", "f", "g", "h", "i", "j", "k", "l", "m",
      "n", "o", "p", "q", "r", "s", "t", "u", "v", "w", "x", "y", "z">>[k] = c

\* the code point order of the characters a version identifier may hold:
\* "-" < digits < lowercase letters
CharCode(c) ==
    IF c = "-" THEN 45
    ELSE IF c \in Digits THEN 48 + DigitVal(c)
    ELSE 96 + LetterIndex(c)

\* Python: int(s) for a string of digits
RECURSIVE ToInt(_)
ToInt(s) ==
    IF Len(s) = 0 THEN 0
    ELSE 10 * ToInt(SubSeq(s, 1, Len(s) - 1)) + DigitVal(s[Len(s)])

\* Python: cmp of two strings (-1, 0, 1), by code point
RECURSIVE StrCmp(_, _)
StrCmp(a, b) ==
    IF Len(a) = 0 /\ Len(b) = 0 THEN 0
    ELSE IF Len(a) = 0 THEN -1
    ELSE IF Len(b) = 0 THEN 1
    ELSE IF CharCode(a[1]) < CharCode(b[1]) THEN -1
    ELSE IF CharCode(a[1]) > CharCode(b[1]) THEN 1
    ELSE StrCmp(Tail(a), Tail(b))

IntCmp(a, b) == IF a < b THEN -1 ELSE IF a > b THEN 1 ELSE 0

\* Python: s.split(c)
RECURSIVE SplitOn(_, _)
SplitOn(s, c) ==
    LET i == Find(s, <<c>>)
    IN  IF i = 0 THEN <<s>>
        ELSE <<SubSeq(s, 1, i - 1)>> \o SplitOn(Drop(s, i + 1), c)

(***************************************************************************)
(* semver: VersionInfo.parse and the ordering of VersionInfo, as the       *)
(* library computes them.                                                  *)
(***************************************************************************)
IsNumeric(s) == Len(s) > 0 /\ \A i \in 1..Len(s) : s[i] \in Digits

\* 0|[1-9]\d*
IsNumericId(s) == IsNumeric(s) /\ (Len(s) = 1 \/ s[1] # "0")

\* [0-9a-zA-Z-]+
IsBuildId(s) ==
    Len(s) > 0 /\ \A i \in 1..Len(s) : s[i] \in Digits \cup Letters \cup {"-"}

\* 0|[1-9]\d*|\d*[a-zA-Z-][0-9a-zA-Z-]*
IsPrereleaseId(s) ==
    \/ IsNumericId(s)
    \/ IsBuildId(s) /\ \E i \in 1..Len(s) : s[i] \notin Digits

\* the value of a version that is None
NoVersion ==
    [ok |-> FALSE, major |-> 0, minor |-> 0, patch |-> 0,
     prerelease |-> <<>>, build |-> <<>>]

\* the text before the first c (all of it when there is none), and after it
Before(s, c) == IF Contains(s, <<c>>) THEN SubSeq(s, 1, Find(s, <<c>>) - 1) ELSE s
After(s, c) == IF Contains(s, <<c>>) THEN Drop(s, Find(s, <<c>>) + 1) ELSE <<>>

\* (0|[1-9]\d*)\.(0|[1-9]\d*)\.(0|[1-9]\d*)
ValidCore(parts) == Len(parts) = 3 /\ \A i \in 1..3 : IsNumericId(parts[i])
ValidPrerelease(parts) == \A i \in 1..Len(parts) : IsPrereleaseId(parts[i])
ValidBuild(parts) == \A i \in 1..Len(parts) : IsBuildId(parts[i])

VersionOfParts(coreParts, pre, build) ==
    [ok |-> TRUE,
     major |-> ToInt(coreParts[1]),
     minor |-> ToInt(coreParts[2]),
     patch |-> ToInt(coreParts[3]),
     prerelease |-> pre,
     build |-> build]

\* the groups of the pattern: core, then "-" prerelease, then "+" build
VersionOfGroups(core, hasPre, pre, hasBuild, build) ==
    IF /\ ValidCore(SplitOn(core, "."))
       /\ hasPre => ValidPrerelease(SplitOn(pre, "."))
       /\ hasBuild => ValidBuild(SplitOn(build, "."))
    THEN VersionOfParts(SplitOn(core, "."), pre, build)
    ELSE NoVersion

\* the prerelease begins at the first "-" of what precedes the build
ParseWithoutBuild(s, hasBuild, build) ==
    VersionOfGroups(Before(s, "-"), Contains(s, <<"-">>), After(s, "-"),
                    hasBuild, build)

\* the pattern ends in $, which also matches before one trailing newline
StripNewline(text) ==
    IF Len(text) > 0 /\ text[Len(text)] = "\n"
    THEN SubSeq(text, 1, Len(text) - 1) ELSE text

\* the build begins at the first "+"
ParseStripped(s) ==
    ParseWithoutBuild(Before(s, "+"), Contains(s, <<"+">>), After(s, "+"))

\* semver.VersionInfo.parse: ok is FALSE where the library raises ValueError
ParseVersion(text) == ParseStripped(StripNewline(text))

\* semver's cmp_prerelease_tag on two dot-separated parts: a part of digits
\* is an int, ints sort before strings
PrereleaseTagCmp(a, b) ==
    IF IsNumeric(a) /\ IsNumeric(b) THEN IntCmp(ToInt(a), ToInt(b))
    ELSE IF IsNumeric(a) THEN -1
    ELSE IF IsNumeric(b) THEN 1
    ELSE StrCmp(a, b)

\* semver's _nat_cmp: the first differing pair of parts decides, else the
\* lengths of the two strings
RECURSIVE NatCmpParts(_, _, _, _)
NatCmpParts(aParts, bParts, a, b) ==
    IF Len(aParts) = 0 \/ Len(bParts) = 0 THEN IntCmp(Len(a), Len(b))
    ELSE IF PrereleaseTagCmp(aParts[1], bParts[1]) # 0
    THEN PrereleaseTagCmp(aParts[1], bParts[1])
    ELSE NatCmpParts(Tail(aParts), Tail(bParts), a, b)

NatCmp(a, b) == NatCmpParts(SplitOn(a, "."), SplitOn(b, "."), a, b)

\* cmp of the (major, minor, patch) tuples
CoreCmp(v1, v2) ==
    IF v1.major # v2.major THEN IntCmp(v1.major, v2.major)
    ELSE IF v1.minor # v2.minor THEN IntCmp(v1.minor, v2.minor)
    ELSE IntCmp(v1.patch, v2.patch)

\* the tail of VersionInfo.compare: with equal cores the prereleases decide,
\* and a version without prerelease is the greater one
PrereleaseCmp(v1, v2, rccmp) ==
    IF rccmp = 0 THEN 0
    ELSE IF v1.prerelease = <<>> THEN 1
    ELSE IF v2.prerelease = <<>> THEN -1
    ELSE rccmp

\* VersionInfo.compare
VersionCompare(v1, v2) ==
    IF CoreCmp(v1, v2) # 0 THEN CoreCmp(v1, v2)
    ELSE PrereleaseCmp(v1, v2, NatCmp(v1.prerelease, v2.prerelease))

\* a comparison that lets an equal version pass
VersionLessOrEqual(v1, v2) == VersionCompare(v1, v2) <= 0

\* VersionInfo.__lt__
VersionLess(v1, v2) == VersionCompare(v1, v2) < 0

(***************************************************************************)
(* re: compiling a pattern and re.search, for patterns written with        *)
(* ordinary characters, ".", "^", "$", a postfix "*", "[...]" sets of plain *)
(* characters and the escapes \d and \<punctuation>.  The model's patterns *)
(* hold no other special character, and no "^" in a set.                   *)
(***************************************************************************)
\* position of the "]" closing the set opened at p[i]; a "]" right after the
\* "[" is a member of the set; 0 when the set is unterminated
SetClose(p, i) ==
    IF \E j \in (i + 2)..Len(p) : p[j] = "]"
    THEN CHOOSE j \in (i + 2)..Len(p) :
            p[j] = "]" /\ \A k \in (i + 2)..(j - 1) : p[k] # "]"
    ELSE 0

BadAtom == [ok |-> FALSE, kind |-> "set", chars |-> {}, next |-> 0]
Atom(kind, chars, next) == [ok |-> TRUE, kind |-> kind, chars |-> chars, next |-> next]

\* the set opened at p[i] and closed at p[j]
SetAtom(p, i, j) ==
    IF j = 0 THEN BadAtom                        \* unterminated character set
    ELSE Atom("set", {p[k] : k \in (i + 1)..(j - 1)}, j + 1)

\* the atom starting at p[i]: its kind, its characters and the position
\* after it; ok is FALSE where re raises re.error
AtomAt(p, i) ==
    IF p[i] = "*" THEN BadAtom                   \* nothing to repeat
    ELSE IF p[i] = "[" THEN SetAtom(p, i, SetClose(p, i))
    ELSE IF p[i] = "\\" THEN
        IF i = Len(p) THEN BadAtom               \* bad escape (end of pattern)
        ELSE IF p[i + 1] = "d" THEN Atom("set", Digits, i + 2)
        ELSE Atom("set", {p[i + 1]}, i + 2)
    ELSE IF p[i] = "." THEN Atom("any", {}, i + 1)
    ELSE IF p[i] = "$" THEN Atom("end", {}, i + 1)
    ELSE IF p[i] = "^" THEN Atom("begin", {}, i + 1)
    ELSE Atom("set", {p[i]}, i + 1)

\* an item in front of the compiled rest of the pattern
ItemThen(item, rest) ==
    IF ~rest.ok THEN rest
    ELSE [ok |-> TRUE, items |-> <<item>> \o rest.items]

\* re.compile: the sequence of items (an atom, starred or not) of the
\* pattern from position i on
RECURSIVE CompileFrom(_, _)
CompileAtom(p, a) ==
    LET starred == a.ok /\ a.next <= Len(p) /\ p[a.next] = "*"
        after == IF starred THEN a.next + 1 ELSE a.next
        \* "$*", "^*": nothing to repeat; "a**": multiple repeat
        badStar == starred /\ (\/ a.kind \in {"end", "begin"}
                               \/ (after <= Len(p) /\ p[after] = "*"))
    IN  IF ~a.ok \/ badStar THEN [ok |-> FALSE, items |-> <<>>]
        ELSE ItemThen([kind |-> a.kind, chars |-> a.chars, star |-> starred],
                      CompileFrom(p, after))
CompileFrom(p, i) ==
    IF i > Len(p) THEN [ok |-> TRUE, items |-> <<>>]
    ELSE CompileAtom(p, AtomAt(p, i))

Compile(p) == CompileFrom(p, 1)

\* one character against an atom ("." matches anything but a newline)
AtomMatches(item, c) ==
    IF item.kind = "any" THEN c # "\n" ELSE c \in item.chars

\* how many characters of s from pos on the atom matches in a row
RECURSIVE RunLength(_, _, _)
RunLength(item, s, pos) ==
    IF pos <= Len(s) /\ AtomMatches(item, s[pos])
    THEN 1 + RunLength(item, s, pos + 1) ELSE 0

\* the positions an item can end at when it starts at pos; a starred atom
\* offers every run up to the longest
ItemEnds(item, s, pos) ==
    IF item.kind = "end"
    THEN IF pos = Len(s) + 1 \/ (pos = Len(s) /\ s[pos] = "\n") THEN {pos} ELSE {}
    ELSE IF item.kind = "begin" THEN IF pos = 1 THEN {pos} ELSE {}
    ELSE IF item.star THEN pos..(pos + RunLength(item, s, pos))
    ELSE IF pos <= Len(s) /\ AtomMatches(item, s[pos]) THEN {pos + 1} ELSE {}

\* of the ends that let the rest of the pattern match, the last (greedy)
GreedyEnd(rest) ==
    IF \A e \in DOMAIN rest : rest[e] = 0 THEN 0
    ELSE rest[CHOOSE e \in DOMAIN rest :
                 rest[e] # 0 /\ \A f \in DOMAIN rest : rest[f] # 0 => f <= e]

\* the backtracking matcher: the position after the match of items[k..] that
\* starts at pos, 0 when there is none
RECURSIVE MatchFrom(_, _, _, _)
MatchFrom(items, k, s, pos) ==
    IF k > Len(items) THEN pos
    ELSE GreedyEnd([e \in ItemEnds(items[k], s, pos) |->
                        MatchFrom(items, k + 1, s, e)])

NoMatch(raised) ==
    [raised |-> raised, found |-> FALSE, start |-> 0, stop |-> 0, group0 |-> <<>>]

\* the match object of a match over [start, stop)
MatchObject(s, start, stop) ==
    [raised |-> FALSE, found |-> TRUE, start |-> start, stop |-> stop,
     group0 |-> SubSeq(s, start, stop - 1)]

\* the leftmost position of s where the items match
LeftmostMatch(items, s, starts) ==
    IF starts = {} THEN NoMatch(FALSE)
    ELSE MatchObject(s, CHOOSE i \in starts : \A j \in starts : i <= j,
                     MatchFrom(items, 1, s,
                               CHOOSE i \in starts : \A j \in starts : i <= j))

SearchCompiled(c, s) ==
    IF ~c.ok THEN NoMatch(TRUE)
    ELSE LeftmostMatch(c.items, s,
                       {i \in 1..(Len(s) + 1) : MatchFrom(c.items, 1, s, i) # 0})

\* re.search(regex_str, to_search_str): raised where the pattern does not
\* compile, else the leftmost match, [start, stop) in 1-based positions
ReSearch(regex_str, to_search_str) == SearchCompiled(Compile(regex_str), to_search_str)

(***************************************************************************)
(* The state.                                                              *)
(***************************************************************************)
VARIABLES
    pc,                 \* the position of the running operation
    outcome,            \* "running", "returned", "exit1" (sys.exit(1)) or "raised"
    retval,             \* what the operation returned, once outcome = "returned"
    errors,             \* the messages passed to error(), in order
    oks,                \* the number of calls of ok()
    old_version_str,    \* compare_versions: its arguments
    new_version_str,
    abort,              \* the abort argument of the operation called
    regex_str,          \* _search_or_error: its arguments
    to_search_str,
    literal_consulted,  \* whether "regex_str in to_search_str" was evaluated
    files,              \* do_check: the caller's list of file paths
    file_regexes,       \* do_check: the caller's list of regexes
    files_in,           \* the two lists as they were when do_check was called
    file_regexes_in,
    base_blob,          \* the primary file in the base commit's tree
    current_blob,       \* the primary file in the current commit's tree
    in_scope,           \* whether the primary file lies under the cwd prefix
    other_diff,         \* whether another path under the cwd prefix differs
    version_file,       \* do_check's locals
    version_regex,
    old_version,
    new_version,
    error_detected,
    sync_index,         \* the position of the loop over zip(files, file_regexes)
    diffs,              \* the number of diffs computed between the commits
    reads,              \* the accesses to the commits' trees, in order
    phases,             \* the phases the orchestrator has entered, in order
    merge_strategy,     \* do_merge: its strategy argument, a local it rewrites
    merge_strategy_in,  \* the strategy as it was when do_merge was called
    conflicted_files,   \* the paths repo.index.unmerged_blobs() reports
    incoming_blob,      \* the primary file in the tree of MERGE_HEAD
    incoming_version,   \* do_merge's locals
    current_version,
    conflicted_version_files,
    merge_index,        \* the position of the loop over conflicted_version_files
    resolutions,        \* one record per call of resolve_version_conflicts
    turn_conflict,      \* the MergeConflict of one turn of the resolver's loop
    turn_file,          \* the VersionFile the turn resolves it for
    turn_strategy,      \* the strategy handed to get_split_merge_result
    turn_splits,        \* the turn's local version_conflict_lines
    turn_result,        \* the turn's local merge_result
    turn_text,          \* the resolver's local file_text
    commit_valid,       \* search_commit_file: whether git_commit is a Commit
    default_regex,      \* resolve_files_to_regexes_mismatch: its third argument
    repo,               \* get_base_commit: whether repo is a Repo, not None
    base_input,         \* get_base_commit: its second argument, <<>> for None
    resolvable,         \* the references repo.commit() resolves
    tried,              \* the references handed to repo.commit(), in order
    base_index,         \* the position of the loop over BASES_IF_NONE
    work_file,          \* resolve_version_conflicts: the file on disk
    file_conflicts,     \* its local conflicts, the last parse's result
    parsed_from,        \* the text that parse was given
    conflict_index,     \* the position of the loop over reversed(conflicts)
    applications,       \* one record per call of apply_merge, in order
    file_staged,        \* whether the file was added to the index
    runs,               \* the calls of resolve_version_conflicts that are over
    first_text          \* the file's text after the first of them

vars == <<pc, outcome, retval, errors, oks, old_version_str, new_version_str,
          abort, regex_str, to_search_str, literal_consulted,
          files, file_regexes, files_in, file_regexes_in, base_blob,
          current_blob, in_scope, other_diff, version_file, version_regex,
          old_version, new_version, error_detected, sync_index, diffs, reads,
          phases, merge_strategy, merge_strategy_in, conflicted_files,
          incoming_blob, incoming_version, current_version,
          conflicted_version_files, merge_index, resolutions,
          turn_conflict, turn_file, turn_strategy, turn_splits, turn_result,
          turn_text, commit_valid, default_regex, repo, base_input, resolvable,
          tried, base_index, work_file, file_conflicts, parsed_from,
          conflict_index, applications, file_staged, runs, first_text>>

resultVars == <<outcome, retval, errors, oks>>
repoVars == <<base_blob, current_blob, in_scope, other_diff>>
checkVars == <<files, file_regexes, files_in, file_regexes_in, version_file,
               version_regex, old_version, new_version, error_detected,
               sync_index, diffs, reads, phases>>

compareVars == <<old_version_str, new_version_str>>
mergeVars == <<merge_strategy, merge_strategy_in, conflicted_files,
               incoming_blob, incoming_version, current_version,
               conflicted_version_files, merge_index, resolutions>>
searchVars == <<regex_str, to_search_str, literal_consulted>>
turnVars == <<turn_conflict, turn_file, turn_strategy, turn_splits,
              turn_result, turn_text>>
baseVars == <<repo, base_input, resolvable, tried, base_index>>
fileVars == <<work_file, file_conflicts, parsed_from, conflict_index,
              applications, file_staged, runs, first_text>>
unitVars == <<commit_valid, default_regex, baseVars, fileVars>>

(***************************************************************************)
(* utils.py: error, compare_versions, _search_or_error.                    *)
(* An operation's result is a record: what it returned (ret), the messages *)
(* it passed to error() (errs), its calls of ok() (oks), whether it ended  *)
(* in sys.exit(1) (exit) and whether an exception left it (raised).        *)
(***************************************************************************)
ErrNewVersion == "New version not detected!"
ErrNotGreater == "New version needs to be greater than old! See semver.org"
ErrNoFiles == "No files or regexes provided!"
ErrNotFound == "Could not find regex in inputted string"
ErrFileNotFound == "File not found in the provided commit"
ErrNotInCurrent == "File not found in current commit"
ErrNeedsToMatch == "file needs to match version file!"
ErrNotAllCorrect == "Not all files are correct"

\* error(msg, abort): logs msg, then sys.exit(1) if abort, else returns ''
error(msg, ab) == [ret |-> <<>>, errs |-> <<msg>>, oks |-> 0, exit |-> ab,
                   raised |-> FALSE]

Returned(v, n) ==
    [ret |-> v, errs |-> <<>>, oks |-> n, exit |-> FALSE, raised |-> FALSE]

Failed(v, msg, ab) ==
    [ret |-> v, errs |-> <<msg>>, oks |-> 0, exit |-> ab, raised |-> FALSE]

\* lines 110-127, on the two parsed versions (ok FALSE for None)
CompareParsed(old_parsed, new_parsed, ab) ==
    IF ~new_parsed.ok THEN Failed(FALSE, ErrNewVersion, ab)
    ELSE IF ~old_parsed.ok THEN Returned(TRUE, 1)
    ELSE IF VersionLess(old_parsed, new_parsed) THEN Returned(TRUE, 1)
    ELSE Failed(FALSE, ErrNotGreater, ab)

\* each version parsed in a try block of its own: an unparsable old version
\* is left None and the new one is still parsed
TryParseEach(old_str, old_parsed, new_str) ==
    <<IF old_str # <<>> /\ old_parsed.ok THEN old_parsed ELSE NoVersion,
      ParseVersion(new_str)>>

\* lines 100-108, the try block: old is parsed unless it is empty, then new;
\* the first ValueError leaves the block with what was assigned before it
TryParse(old_str, old_parsed, new_str) ==
    IF old_str = <<>> THEN <<NoVersion, ParseVersion(new_str)>>
    ELSE IF ~old_parsed.ok THEN <<NoVersion, NoVersion>>
    ELSE <<old_parsed, ParseVersion(new_str)>>

ComparePair(pair, ab) == CompareParsed(pair[1], pair[2], ab)

compare_versions(old_str, new_str, ab) ==
    ComparePair(TryParse(old_str, ParseVersion(old_str), new_str), ab)

\* the literal test made before the regex result is looked at
SearchResultLiteralFirst(rx, content, ab, result) ==
    IF result.raised
    THEN [ret |-> <<>>, errs |-> <<>>, oks |-> 0, exit |-> FALSE,
          raised |-> TRUE, literal |-> FALSE]
    ELSE IF Contains(content, rx)
    THEN [ret |-> rx, errs |-> <<>>, oks |-> 0, exit |-> FALSE,
          raised |-> FALSE, literal |-> TRUE]
    ELSE IF result.found
    THEN [ret |-> result.group0, errs |-> <<>>, oks |-> 0, exit |-> FALSE,
          raised |-> FALSE, literal |-> TRUE]
    ELSE [ret |-> <<>>, errs |-> <<ErrNotFound>>, oks |-> 0, exit |-> ab,
          raised |-> FALSE, literal |-> TRUE]

\* lines 404-411, on the result of re.search
SearchResult(rx, content, ab, result) ==
    IF result.raised
    THEN [ret |-> <<>>, errs |-> <<>>, oks |-> 0, exit |-> FALSE,
          raised |-> TRUE, literal |-> FALSE]
    ELSE IF result.found
    THEN [ret |-> result.group0, errs |-> <<>>, oks |-> 0, exit |-> FALSE,
          raised |-> FALSE, literal |-> FALSE]
    ELSE IF Contains(content, rx)
    THEN [ret |-> rx, errs |-> <<>>, oks |-> 0, exit |-> FALSE,
          raised |-> FALSE, literal |-> TRUE]
    ELSE [ret |-> <<>>, errs |-> <<ErrNotFound>>, oks |-> 0, exit |-> ab,
          raised |-> FALSE, literal |-> TRUE]

_search_or_error(rx, content, ab) ==
    SearchResult(rx, content, ab, ReSearch(rx, content))

\* one access to a commit's tree: _has_commit_file ("has") or
\* _get_commit_file ("get") of a path, and the blob found there
Access(commit, path, op, blob) ==
    [commit |-> commit, path |-> path, op |-> op, blob |-> blob]

\* a result without the locator's own field
Plain(r) ==
    [ret |-> r.ret, errs |-> r.errs, oks |-> r.oks, exit |-> r.exit,
     raised |-> r.raised]

search_commit_file(blob, rx, ab) ==
    IF ~blob.exists
    THEN error(ErrFileNotFound, ab)              \* KeyError
    ELSE Plain(_search_or_error(rx, blob.data, ab))

ErrInvalidCommit == "Provided commit is not valid"

\* lines 262-269 with the commit itself: a git_commit that is not a Commit has
\* no tree, and the AttributeError of _get_commit_file is reported
SearchCommitFile(valid, blob, rx, ab) ==
    IF ~valid
    THEN error(ErrInvalidCommit, ab)             \* AttributeError
    ELSE search_commit_file(blob, rx, ab)

\* no new-file branch: a file missing from the base commit is searched there
\* like any other
ParsedVersionsNoNewFile(base, current, path, old, new) ==
    LET hasCurrent == Access("current_commit", path, "has", current)
        getBase == Access("base_commit", path, "get", base)
        getCurrent == Access("current_commit", path, "get", current)
    IN  IF ~current.exists
        THEN [old |-> <<>>, new |-> <<>>, errs |-> <<ErrNotInCurrent>>, oks |-> 0,
              exit |-> TRUE, raised |-> FALSE, reads |-> <<hasCurrent>>]
        ELSE IF old.exit \/ old.raised
        THEN [old |-> <<>>, new |-> <<>>, errs |-> old.errs, oks |-> 1,
              exit |-> old.exit, raised |-> old.raised,
              reads |-> <<hasCurrent, getBase>>]
        ELSE [old |-> old.ret, new |-> new.ret, errs |-> new.errs, oks |-> 1,
              exit |-> new.exit, raised |-> new.raised,
              reads |-> <<hasCurrent, getBase, getCurrent>>]

\* lines 278-297, on the results of the two searches (each made only where
\* the code makes it)
ParsedVersions(base, current, path, old, new) ==
    LET hasCurrent == Access("current_commit", path, "has", current)
        hasBase == Access("base_commit", path, "has", base)
        getBase == Access("base_commit", path, "get", base)
        getCurrent == Access("current_commit", path, "get", current)
    IN  IF ~current.exists
        THEN [old |-> <<>>, new |-> <<>>, errs |-> <<ErrNotInCurrent>>, oks |-> 0,
              exit |-> TRUE, raised |-> FALSE, reads |-> <<hasCurrent>>]
        ELSE IF ~base.exists
        THEN [old |-> <<>>, new |-> new.ret, errs |-> new.errs, oks |-> 0,
              exit |-> new.exit, raised |-> new.raised,
              reads |-> <<hasCurrent, hasBase, getCurrent>>]
        ELSE IF old.exit \/ old.raised
        THEN [old |-> <<>>, new |-> <<>>, errs |-> old.errs, oks |-> 1,
              exit |-> old.exit, raised |-> old.raised,
              reads |-> <<hasCurrent, hasBase, getBase>>]
        ELSE [old |-> old.ret, new |-> new.ret, errs |-> new.errs, oks |-> 1,
              exit |-> new.exit, raised |-> new.raised,
              reads |-> <<hasCurrent, hasBase, getBase, getCurrent>>]

parse_versions_from_version_file(base, current, path, rx) ==
    ParsedVersions(base, current, path,
                   search_commit_file(base, rx, TRUE),
                   search_commit_file(current, rx, TRUE))

\* how an operation's result ends the call
OutcomeOf(r) == IF r.raised THEN "raised" ELSE IF r.exit THEN "exit1" ELSE "returned"

\* the result r ends the operation (pc and phases apart)
Ends(r) ==
    /\ outcome' = OutcomeOf(r)
    /\ retval' = r.ret
    /\ errors' = errors \o r.errs
    /\ oks' = oks + r.oks

EndsSearch(r) == Ends(r) /\ literal_consulted' = r.literal

\* the state of everything do_check owns, while another operation runs
CheckIdle ==
    /\ files = <<>>
    /\ file_regexes = <<>>
    /\ files_in = <<>>
    /\ file_regexes_in = <<>>
    /\ base_blob = [exists |-> FALSE, data |-> <<>>]
    /\ current_blob = [exists |-> FALSE, data |-> <<>>]
    /\ in_scope = TRUE
    /\ other_diff = FALSE
    /\ version_file = 0
    /\ version_regex = <<>>
    /\ old_version = <<>>
    /\ new_version = <<>>
    /\ error_detected = FALSE
    /\ sync_index = 1
    /\ diffs = 0
    /\ reads = <<>>
    /\ phases = <<>>

\* the state of everything do_merge owns, while another operation runs
MergeIdle ==
    /\ merge_strategy = "CURRENT"
    /\ merge_strategy_in = "CURRENT"
    /\ conflicted_files = {}
    /\ incoming_blob = [exists |-> FALSE, data |-> <<>>]
    /\ incoming_version = <<>>
    /\ current_version = <<>>
    /\ conflicted_version_files = <<>>
    /\ merge_index = 1
    /\ resolutions = <<>>

\* the state of one turn of the resolver's loop, while no turn is modelled
TurnIdle ==
    /\ turn_conflict = <<>>
    /\ turn_file = <<>>
    /\ turn_strategy = "CURRENT"
    /\ turn_splits = <<>>
    /\ turn_result = <<>>
    /\ turn_text = <<>>

\* the state of a call of resolve_version_conflicts, while none is modelled
\* step by step
FileIdle ==
    /\ work_file = [exists |-> FALSE, data |-> <<>>]
    /\ file_conflicts = <<>>
    /\ parsed_from = <<>>
    /\ conflict_index = 0
    /\ applications = <<>>
    /\ file_staged = FALSE
    /\ runs = 0
    /\ first_text = <<>>

\* the state of the arguments of search_commit_file,
\* resolve_files_to_regexes_mismatch and get_base_commit, while another
\* operation runs
UnitIdle ==
    /\ FileIdle
    /\ commit_valid = TRUE
    /\ default_regex = <<>>
    /\ repo = TRUE
    /\ base_input = <<>>
    /\ resolvable = {}
    /\ tried = <<>>
    /\ base_index = 1

\* the state of the comparator's and the searcher's arguments, while another
\* operation runs
ArgsIdle ==
    /\ old_version_str = <<>>
    /\ new_version_str = <<>>
    /\ regex_str = <<>>
    /\ to_search_str = <<>>
    /\ literal_consulted = FALSE

(***************************************************************************)
(* The comparator on its own: every pair of the version texts below.       *)
(***************************************************************************)
Dot(a, b, c) == a \o <<".">> \o b \o <<".">> \o c

VersionTexts ==
    {Dot(ma, mi, <<"0">>) \o pre \o bld :
        ma \in {<<"0">>, <<"1">>},
        mi \in {<<"2">>, <<"1", "0">>},
        pre \in {<<>>, <<"-", "a">>, <<"-", "1">>, <<"-", "a", ".", "1">>,
                 <<"-", "2">>, <<"-", "1", "0">>},
        bld \in {<<>>, <<"+", "b">>}}

NonVersionTexts ==
    {<<"x">>,
     <<"1", ".", "2">>,
     <<"0", "1", ".", "2", ".", "0">>,
     <<"1", ".", "2", ".", "0", "-">>,
     <<"1", ".", "2", ".", "0", "-", "0", "1">>,
     <<"1", ".", "2", ".", "0", "+">>,
     <<"v", "1", ".", "2", ".", "0">>}

CompareInputs == VersionTexts \cup NonVersionTexts
                    \cup {<<>>, <<"1", ".", "2", ".", "0", "\n">>}

InitCompare ==
    /\ pc = "compare_versions"
    /\ outcome = "running"
    /\ retval = FALSE
    /\ errors = <<>>
    /\ oks = 0
    /\ old_version_str \in CompareInputs
    /\ new_version_str \in CompareInputs
    /\ abort \in BOOLEAN
    /\ regex_str = <<>>
    /\ to_search_str = <<>>
    /\ literal_consulted = FALSE
    /\ CheckIdle
    /\ MergeIdle
    /\ TurnIdle
    /\ UnitIdle

CompareVersions ==
    /\ pc = "compare_versions"
    /\ Ends(compare_versions(old_version_str, new_version_str, abort))
    /\ pc' = "done"
    /\ UNCHANGED <<compareVars, abort, searchVars, repoVars, mergeVars, turnVars, unitVars, checkVars>>

NextCompare == CompareVersions

SpecCompare == InitCompare /\ [][NextCompare]_vars

(***************************************************************************)
(* The locator on its own: every pattern and every content up to the       *)
(* bounds, over alphabets that hold the special characters of the model's  *)
(* patterns.                                                               *)
(***************************************************************************)
PatternAlphabet == {"a", ".", "*", "[", "$"}
ContentAlphabet == {"a", "[", "$", "\n"}

InitSearch ==
    /\ pc = "_search_or_error"
    /\ outcome = "running"
    /\ retval = <<>>
    /\ errors = <<>>
    /\ oks = 0
    /\ old_version_str = <<>>
    /\ new_version_str = <<>>
    /\ abort \in BOOLEAN
    /\ regex_str \in TextsUpTo(PatternAlphabet, MaxPatternLen)
    /\ to_search_str \in TextsUpTo(ContentAlphabet, MaxContentLen)
    /\ literal_consulted = FALSE
    /\ CheckIdle
    /\ MergeIdle
    /\ TurnIdle
    /\ UnitIdle

SearchOrError ==
    /\ pc = "_search_or_error"
    /\ EndsSearch(_search_or_error(regex_str, to_search_str, abort))
    /\ pc' = "done"
    /\ UNCHANGED <<compareVars, abort, regex_str, to_search_str, repoVars, mergeVars, turnVars, unitVars, checkVars>>

NextSearch == SearchOrError

SpecSearch == InitSearch /\ [][NextSearch]_vars

(***************************************************************************)
(* do_check.  The two commits are outside the program: the model fixes the *)
(* primary file's blob in both trees and what the scoped diff shows when   *)
(* do_check is called, and draws a synchronized file's blob from the       *)
(* current tree when do_check reads it.  Paths are numbered: files is      *)
(* <<1, .., n>>, path 1 the primary file, and 0 stands for any other path. *)
(***************************************************************************)
V001 == <<"0", ".", "0", ".", "1">>
V002 == <<"0", ".", "0", ".", "2">>

\* the texts a tracked file may hold
FileTexts == {V001, V002, <<"x">> \o V002, <<"x">>}

NoBlob == [exists |-> FALSE, data |-> <<>>]
Blobs == {NoBlob} \cup {[exists |-> TRUE, data |-> t] : t \in FileTexts}

\* \d\.\d\.\d, .* and the pattern "[", which does not compile
CheckPatterns ==
    {<<"\\", "d", "\\", ".", "\\", "d", "\\", ".", "\\", "d">>,
     <<".", "*">>,
     <<"[">>}

FileLists == {[i \in 1..n |-> i] : n \in 0..MaxFiles}
RegexLists == UNION {[1..m -> CheckPatterns] : m \in 0..MaxFiles}

InitCheck ==
    /\ pc = "NoFiles"
    /\ outcome = "running"
    /\ retval = FALSE
    /\ errors = <<>>
    /\ oks = 0
    /\ old_version_str = <<>>
    /\ new_version_str = <<>>
    /\ abort = TRUE
    /\ regex_str = <<>>
    /\ to_search_str = <<>>
    /\ literal_consulted = FALSE
    /\ files \in FileLists
    /\ file_regexes \in RegexLists
    /\ files_in = files
    /\ file_regexes_in = file_regexes
    /\ base_blob \in Blobs
    /\ current_blob \in Blobs
    /\ in_scope \in BOOLEAN
    /\ other_diff \in BOOLEAN
    /\ version_file = 0
    /\ version_regex = <<>>
    /\ old_version = <<>>
    /\ new_version = <<>>
    /\ error_detected = FALSE
    /\ sync_index = 1
    /\ diffs = 0
    /\ reads = <<>>
    /\ phases = <<"NoFiles">>
    /\ MergeIdle
    /\ TurnIdle
    /\ UnitIdle

\* the result r ends do_check
Finish(r) ==
    /\ Ends(r)
    /\ pc' = "Done"
    /\ phases' = Append(phases, "Done")

\* the result r does not end do_check, which goes on to phase p
GoOn(r, p) ==
    /\ errors' = errors \o r.errs
    /\ oks' = oks + r.oks
    /\ pc' = p
    /\ phases' = Append(phases, p)
    /\ UNCHANGED <<outcome, retval>>

\* the empty-input check written with "and": one empty list passes it and
\* its pop raises IndexError
NoFilesBothEmpty ==
    /\ pc = "NoFiles"
    /\ IF files = <<>> /\ file_regexes = <<>>
       THEN /\ Finish(error(ErrNoFiles, TRUE))
            /\ UNCHANGED <<files, file_regexes, version_file, version_regex>>
       ELSE IF files = <<>> \/ file_regexes = <<>>
       THEN /\ Finish([ret |-> FALSE, errs |-> <<>>, oks |-> 0, exit |-> FALSE,
                       raised |-> TRUE])
            /\ files' = IF files = <<>> THEN files ELSE Tail(files)
            /\ UNCHANGED <<file_regexes, version_file, version_regex>>
       ELSE /\ version_file' = Head(files)
            /\ files' = Tail(files)
            /\ version_regex' = Head(file_regexes)
            /\ file_regexes' = Tail(file_regexes)
            /\ GoOn(Returned(TRUE, 0), "ScopeDiff")
    /\ UNCHANGED <<compareVars, abort, searchVars, repoVars, mergeVars, turnVars, unitVars, files_in,
                   file_regexes_in, old_version, new_version, error_detected,
                   sync_index, diffs, reads>>

\* the primary pair read from the two lists without removing it
NoFilesKeepsLists ==
    /\ pc = "NoFiles"
    /\ IF files = <<>> \/ file_regexes = <<>>
       THEN /\ Finish(error(ErrNoFiles, TRUE))
            /\ UNCHANGED <<version_file, version_regex>>
       ELSE /\ version_file' = Head(files)
            /\ version_regex' = Head(file_regexes)
            /\ GoOn(Returned(TRUE, 0), "ScopeDiff")
    /\ UNCHANGED <<compareVars, abort, searchVars, repoVars, mergeVars, turnVars, unitVars, files_in,
                   file_regexes_in, old_version, new_version, error_detected,
                   sync_index, diffs, reads, files, file_regexes>>

\* lines 151-155: the empty-input check, then the two pops
NoFiles ==
    /\ pc = "NoFiles"
    /\ IF files = <<>> \/ file_regexes = <<>>
       THEN /\ Finish(error(ErrNoFiles, TRUE))
            /\ UNCHANGED <<files, file_regexes, version_file, version_regex>>
       ELSE /\ version_file' = Head(files)
            /\ files' = Tail(files)
            /\ version_regex' = Head(file_regexes)
            /\ file_regexes' = Tail(file_regexes)
            /\ GoOn(Returned(TRUE, 0), "ScopeDiff")
    /\ UNCHANGED <<compareVars, abort, searchVars, repoVars, mergeVars, turnVars, unitVars, files_in,
                   file_regexes_in, old_version, new_version, error_detected,
                   sync_index, diffs, reads>>

\* the diff of the whole tree, the cwd prefix ignored
UnscopedDiff ==
    (IF base_blob # current_blob THEN {version_file} ELSE {})
        \cup (IF other_diff THEN {0} ELSE {})

\* base_commit.diff(current_commit, cwd_repo_path): the changed paths under
\* the cwd prefix
ScopedDiff ==
    (IF in_scope /\ base_blob # current_blob THEN {version_file} ELSE {})
        \cup (IF other_diff THEN {0} ELSE {})

\* lines 157-162
ScopeDiff ==
    /\ pc = "ScopeDiff"
    /\ diffs' = diffs + 1
    /\ IF Cardinality(ScopedDiff) = 0
       THEN Finish(Returned(TRUE, 1))
       ELSE GoOn(Returned(TRUE, 0), "PrimaryVersionCheck")
    /\ UNCHANGED <<compareVars, abort, searchVars, repoVars, mergeVars, turnVars, unitVars, files, file_regexes,
                   files_in, file_regexes_in, version_file, version_regex,
                   old_version, new_version, error_detected, sync_index, reads>>

\* a failed comparison reported without ending the check
ComparePrimaryGoesOn(parsed, compared) ==
    /\ old_version' = parsed.old
    /\ new_version' = parsed.new
    /\ GoOn([compared EXCEPT !.errs = parsed.errs \o compared.errs,
                             !.oks = parsed.oks + compared.oks],
            "SyncFileCheck")

\* line 167, after the two versions were parsed
ComparePrimary(parsed, compared) ==
    /\ old_version' = parsed.old
    /\ new_version' = parsed.new
    /\ IF compared.exit
       THEN Finish([compared EXCEPT !.errs = parsed.errs \o compared.errs,
                                    !.oks = parsed.oks + compared.oks])
       ELSE GoOn([compared EXCEPT !.errs = parsed.errs \o compared.errs,
                                  !.oks = parsed.oks + compared.oks],
                 "SyncFileCheck")

\* lines 164-167, on what parse_versions_from_version_file gave
PrimaryStep(parsed) ==
    /\ reads' = reads \o parsed.reads
    /\ IF parsed.exit \/ parsed.raised
       THEN /\ Finish([ret |-> FALSE, errs |-> parsed.errs, oks |-> parsed.oks,
                       exit |-> parsed.exit, raised |-> parsed.raised])
            /\ UNCHANGED <<old_version, new_version>>
       ELSE ComparePrimary(parsed, compare_versions(parsed.old, parsed.new, TRUE))

PrimaryVersionCheck ==
    /\ pc = "PrimaryVersionCheck"
    /\ PrimaryStep(parse_versions_from_version_file(
                       base_blob, current_blob, version_file, version_regex))
    /\ UNCHANGED <<compareVars, abort, searchVars, repoVars, mergeVars, turnVars, unitVars, files, file_regexes,
                   files_in, file_regexes_in, version_file, version_regex,
                   error_detected, sync_index, diffs>>

\* lines 175-180, on what search_commit_file gave for one file
SyncStep(file, blob, file_version) ==
    /\ reads' = Append(reads, Access("current_commit", file, "get", blob))
    /\ IF file_version.raised
       THEN /\ Finish(file_version)
            /\ UNCHANGED <<error_detected, sync_index>>
       ELSE /\ errors' = errors \o file_version.errs
                           \o (IF ~Contains(file_version.ret, new_version)
                               THEN <<ErrNeedsToMatch>> ELSE <<>>)
            /\ error_detected' = (error_detected
                                    \/ ~Contains(file_version.ret, new_version))
            /\ sync_index' = sync_index + 1
            /\ UNCHANGED <<pc, phases, outcome, retval, oks>>

\* a loop over every remaining file, one without a regex of its own searched
\* with the primary file's
SyncFileCheckEveryFile ==
    /\ pc = "SyncFileCheck"
    /\ sync_index <= Len(files)
    /\ \E blob \in Blobs :
         SyncStep(files[sync_index], blob,
                  search_commit_file(blob,
                                     IF sync_index <= Len(file_regexes)
                                     THEN file_regexes[sync_index]
                                     ELSE version_regex,
                                     FALSE))
    /\ UNCHANGED <<compareVars, abort, searchVars, repoVars, mergeVars, turnVars, unitVars, files, file_regexes,
                   files_in, file_regexes_in, version_file, version_regex,
                   old_version, new_version, diffs>>

\* lines 174-180: one turn of the loop over zip(files, file_regexes)
SyncFileCheck ==
    /\ pc = "SyncFileCheck"
    /\ sync_index <= Min(Len(files), Len(file_regexes))
    /\ \E blob \in Blobs :
         SyncStep(files[sync_index], blob,
                  search_commit_file(blob, file_regexes[sync_index], FALSE))
    /\ UNCHANGED <<compareVars, abort, searchVars, repoVars, mergeVars, turnVars, unitVars, files, file_regexes,
                   files_in, file_regexes_in, version_file, version_regex,
                   old_version, new_version, diffs>>

\* lines 181-185
Done ==
    /\ pc = "SyncFileCheck"
    /\ sync_index > Min(Len(files), Len(file_regexes))
    /\ IF error_detected
       THEN Finish(error(ErrNotAllCorrect, TRUE))
       ELSE Finish(Returned(TRUE, 1))
    /\ UNCHANGED <<compareVars, abort, searchVars, repoVars, mergeVars, turnVars, unitVars, files, file_regexes,
                   files_in, file_regexes_in, version_file, version_regex,
                   old_version, new_version, error_detected, sync_index, diffs,
                   reads>>

NextCheck ==
    \/ NoFiles
    \/ ScopeDiff
    \/ PrimaryVersionCheck
    \/ SyncFileCheck
    \/ Done

Spec == InitCheck /\ [][NextCheck]_vars

\* do_check runs to its end: a sequential program takes its next step.  Weak
\* fairness of every action; that of PrimaryVersionCheck is written with its
\* enabling condition, pc = "PrimaryVersionCheck", in the place of ENABLED
SpecLive ==
    /\ InitCheck
    /\ [][NextCheck]_vars
    /\ WF_vars(NoFiles)
    /\ WF_vars(ScopeDiff)
    /\ WF_vars(SyncFileCheck)
    /\ WF_vars(Done)
    /\ ([]<>(pc # "PrimaryVersionCheck") \/ []<><<PrimaryVersionCheck>>_vars)

(***************************************************************************)
(* merge_utils.py.  Python str operations first, then the conflict parser, *)
(* the MergeConflict methods and the resolver of one file.                 *)
(***************************************************************************)
\* the first line of a text whose first line ends at nl, the whole text when
\* nl is 0
FirstLine(text, nl) ==
    IF nl = 0 THEN text ELSE SubSeq(text, 1, nl)

\* where the line boundary at the first "\n" or "\r" of a text ends, "\r\n"
\* being one boundary; 0 when the text holds neither
BoundaryEnd(text, ends) ==
    IF ends = {} THEN 0
    ELSE LET i == CHOOSE e \in ends : \A f \in ends : e <= f
         IN  IF text[i] = "\r" /\ i < Len(text) /\ text[i + 1] = "\n"
             THEN i + 1 ELSE i

LineEnd(text) == BoundaryEnd(text, {i \in DOMAIN text : text[i] \in {"\n", "\r"}})

\* str.splitlines(keepends=True), "\n", "\r" and "\r\n" the line boundaries
\* of the model's texts
RECURSIVE splitlines(_)
LineThenRest(text, line) == <<line>> \o splitlines(Drop(text, Len(line) + 1))

splitlines(text) ==
    IF text = <<>> THEN <<>>
    ELSE LineThenRest(text, FirstLine(text, LineEnd(text)))

\* "".join(lines[a:b + 1]) for 1-based a and b
RECURSIVE Join(_, _, _)
Join(lines, a, b) ==
    IF a > b THEN <<>> ELSE lines[a] \o Join(lines, a + 1, b)

\* a, b = text.split(sep, 1): ValueError (ok FALSE) when sep is empty or not
\* in text
SplitAt(text, sep, at) ==
    [ok |-> sep # <<>> /\ at > 0,
     head |-> SubSeq(text, 1, at - 1),
     tail |-> Drop(text, at + Len(sep))]

Split(text, sep) == SplitAt(text, sep, Find(text, sep))

\* text.replace(old, new, 1)
ReplaceAt(text, old, new, at) ==
    IF at = 0 THEN text
    ELSE SubSeq(text, 1, at - 1) \o new \o Drop(text, at + Len(old))

Replace(text, old, new) == ReplaceAt(text, old, new, Find(text, old))

\* MergeStrategy
MergeStrategies == {"CURRENT", "INCOMING", "BOTH", "NEITHER", "HIGHER", "LOWER"}

\* CONFLICT_RE: a start line of the marker "<<<<<<<", a blank and a ref label,
\* the current body, the divider line "=======", the incoming body, an end
\* line of the marker ">>>>>>>", a blank and a ref label; the bodies are whole
\* lines, as few as possible
StartMarker == <<"<", "<", "<", "<", "<", "<", "<", " ">>
Divider == <<"=", "=", "=", "=", "=", "=", "=", "\n">>
EndMarker == <<">", ">", ">", ">", ">", ">", ">", " ">>

IsMarkerLine(line, marker) ==
    /\ OccursAt(line, marker, 1)
    /\ Len(line) > Len(marker) + 1
    /\ line[Len(line)] = "\n"

\* whether a line is the start line, the divider line or the end line
IsLine(line, kind) ==
    IF kind = "start" THEN IsMarkerLine(line, StartMarker)
    ELSE IF kind = "divider" THEN line = Divider
    ELSE IsMarkerLine(line, EndMarker)

\* the first of the lines k.. of the given kind, 0 if there is none
RECURSIVE LineFrom(_, _, _)
LineFrom(lines, k, kind) ==
    IF k > Len(lines) THEN 0
    ELSE IF IsLine(lines[k], kind) THEN k
    ELSE LineFrom(lines, k + 1, kind)

\* lines 45-56, MergeConflict.from_regex_match: the match is the lines s..e,
\* its divider the line d
from_regex_match(lines, s, d, e) ==
    [start_index |-> Len(Join(lines, 1, s - 1)),
     end_index |-> Len(Join(lines, 1, e)),
     start_line |-> lines[s],
     end_line |-> lines[e],
     current |-> Join(lines, s + 1, d - 1),
     incoming |-> Join(lines, d + 1, e - 1),
     text |-> Join(lines, s, e)]

RECURSIVE finditer(_, _)
MatchEnd(lines, s, d, e) ==
    IF e = 0 THEN <<>>
    ELSE <<from_regex_match(lines, s, d, e)>> \o finditer(lines, e + 1)

MatchDivider(lines, s, d) ==
    IF d = 0 THEN <<>>
    ELSE MatchEnd(lines, s, d, LineFrom(lines, d + 1, "end"))

MatchStart(lines, s) ==
    IF s = 0 THEN <<>>
    ELSE MatchDivider(lines, s, LineFrom(lines, s + 1, "divider"))

\* CONFLICT_RE.finditer on the lines k.. of the text
finditer(lines, k) == MatchStart(lines, LineFrom(lines, k, "start"))

\* lines 233-238
parse_merge_conflicts(file_text) == finditer(splitlines(file_text), 1)

\* lines 264-266: re.error leaves it when the pattern does not compile
IsMatch(regex, search_str, result) ==
    [raised |-> result.raised,
     match |-> ~result.raised /\ (result.found \/ Contains(search_str, regex))]

is_regex_match(regex, search_str) ==
    IsMatch(regex, search_str, ReSearch(regex, search_str))

\* the lines of a body that the regex matches; raised when a line was tried
\* against a pattern that does not compile
VersionLines(regex, lines) ==
    [raised |-> \E i \in DOMAIN lines : is_regex_match(regex, lines[i]).raised,
     lines |-> SelectSeq(lines, LAMBDA l : is_regex_match(regex, l).match)]

\* the pairing carried on to the longer count, the shorter side's last line
\* repeated
ZipLonger(a, b) ==
    IF a = <<>> \/ b = <<>> THEN <<>>
    ELSE [i \in 1..(Len(a) + Len(b) - Min(Len(a), Len(b))) |->
             <<a[Min(i, Len(a))], b[Min(i, Len(b))]>>]

\* line 261: list(zip(current_version_lines, incoming__version_lines))
Zip(a, b) == [i \in 1..Min(Len(a), Len(b)) |-> <<a[i], b[i]>>]

\* lines 245-261, on the matching lines of the two bodies
VersionConflictLines(cur, inc) ==
    [raised |-> cur.raised \/ inc.raised,
     lines |-> IF cur.raised \/ inc.raised THEN <<>> ELSE Zip(cur.lines, inc.lines)]

parse_version_conflict_lines(vfile, conflict) ==
    VersionConflictLines(
        VersionLines(vfile.current_regex, splitlines(conflict.current)),
        VersionLines(vfile.incoming_regex, splitlines(conflict.incoming)))

\* lines 133-135
_is_invalid_line(text) == text # <<>> /\ text[Len(text)] # "\n"

\* a segment wrapped in markers whatever it holds
_create_conflict_text_always(conflict, current, incoming) ==
    conflict.start_line \o current \o Divider \o incoming \o conflict.end_line

\* a segment wrapped in the markers of the conflict style, not in the start
\* and end lines of the conflict
_create_conflict_text_plain_markers(conflict, current, incoming) ==
    IF current = <<>> /\ incoming = <<>> THEN <<>>
    ELSE <<"<", "<", "<", "<", "<", "<", "<", "\n">> \o current \o Divider
           \o incoming \o <<">", ">", ">", ">", ">", ">", ">", "\n">>

\* lines 109-113
_create_conflict_text(conflict, current, incoming) ==
    IF current = <<>> /\ incoming = <<>> THEN <<>>
    ELSE conflict.start_line \o current \o Divider \o incoming \o conflict.end_line

\* BOTH written as incoming + current
_get_merge_result_reversed(current, incoming, default, strategy) ==
    IF strategy = "CURRENT" THEN current
    ELSE IF strategy = "INCOMING" THEN incoming
    ELSE IF strategy = "BOTH" THEN incoming \o current
    ELSE IF strategy = "NEITHER" THEN <<>>
    ELSE default

\* NEITHER falling through to the default, the pair wrapped in markers again
_get_merge_result_neither_wrapped(current, incoming, default, strategy) ==
    IF strategy = "CURRENT" THEN current
    ELSE IF strategy = "INCOMING" THEN incoming
    ELSE IF strategy = "BOTH" THEN current \o incoming
    ELSE default

\* lines 115-131
_get_merge_result(current, incoming, default, strategy) ==
    IF strategy = "CURRENT" THEN current
    ELSE IF strategy = "INCOMING" THEN incoming
    ELSE IF strategy = "BOTH" THEN current \o incoming
    ELSE IF strategy = "NEITHER" THEN <<>>
    ELSE default

\* lines 69-99: the loop from its k-th turn on, result, current and incoming
\* the locals of get_split_merge_result
RECURSIVE SplitLoop(_, _, _, _, _, _, _)
\* a turn without the check of lines 80-88
SplitTurnUnchecked(conflict, merge_splits, k, strategy, result, cur, inc) ==
    IF ~cur.ok \/ ~inc.ok THEN conflict.text
    ELSE SplitLoop(conflict, merge_splits, k + 1, strategy,
                   result
                     \o _create_conflict_text(conflict, cur.head, inc.head)
                     \o _get_merge_result(
                            merge_splits[k][1], merge_splits[k][2],
                            _create_conflict_text(conflict, merge_splits[k][1],
                                                  merge_splits[k][2]),
                            strategy),
                   cur.tail, inc.tail)

\* lines 73-96: one turn, on the two halves the splits gave
SplitTurn(conflict, merge_splits, k, strategy, result, cur, inc) ==
    IF ~cur.ok \/ ~inc.ok THEN conflict.text
    ELSE IF \/ _is_invalid_line(cur.head)
            \/ _is_invalid_line(inc.head)
            \/ _is_invalid_line(merge_splits[k][1])
            \/ _is_invalid_line(merge_splits[k][2])
    THEN conflict.text
    ELSE SplitLoop(conflict, merge_splits, k + 1, strategy,
                   result
                     \o _create_conflict_text(conflict, cur.head, inc.head)
                     \o _get_merge_result(
                            merge_splits[k][1], merge_splits[k][2],
                            _create_conflict_text(conflict, merge_splits[k][1],
                                                  merge_splits[k][2]),
                            strategy),
                   cur.tail, inc.tail)

SplitLoop(conflict, merge_splits, k, strategy, result, current, incoming) ==
    IF k > Len(merge_splits)
    THEN result \o _create_conflict_text(conflict, current, incoming)
    ELSE SplitTurn(conflict, merge_splits, k, strategy, result,
                   Split(current, merge_splits[k][1]),
                   Split(incoming, merge_splits[k][2]))

\* lines 64-99
get_split_merge_result(conflict, merge_splits, strategy) ==
    SplitLoop(conflict, merge_splits, 1, strategy, <<>>, conflict.current,
              conflict.incoming)

\* the text kept from the last character of the region on
apply_merge_from_last(conflict, file_text, merge_result) ==
    SubSeq(file_text, 1, conflict.start_index) \o merge_result
        \o Drop(file_text, conflict.end_index)

\* lines 101-107
apply_merge(conflict, file_text, merge_result) ==
    SubSeq(file_text, 1, conflict.start_index) \o merge_result
        \o Drop(file_text, conflict.end_index + 1)

\* lines 212-218: the loop over reversed(conflicts), from conflicts[k] down
RECURSIVE ApplyConflicts(_, _, _, _, _)
\* lines 213-218: one turn, on the version conflict lines of conflicts[k]
ApplyConflict(vfile, strategy, conflicts, k, file_text, splits) ==
    IF splits.raised THEN [raised |-> TRUE, text |-> file_text]
    ELSE ApplyConflicts(
             vfile, strategy, conflicts, k - 1,
             IF Len(splits.lines) > 0
             THEN apply_merge(conflicts[k], file_text,
                              get_split_merge_result(conflicts[k], splits.lines,
                                                     strategy))
             ELSE file_text)

ApplyConflicts(vfile, strategy, conflicts, k, file_text) ==
    IF k = 0 THEN [raised |-> FALSE, text |-> file_text]
    ELSE ApplyConflict(vfile, strategy, conflicts, k, file_text,
                       parse_version_conflict_lines(vfile, conflicts[k]))

ErrNoVersionFile == "Version file does not exist"

\* the rewritten file staged whatever the new parse finds
ResolutionAlwaysStaged(vfile, strategy, file, applied) ==
    [path |-> vfile.path,
     current_regex |-> vfile.current_regex,
     incoming_regex |-> vfile.incoming_regex,
     strategy |-> strategy,
     exists |-> TRUE,
     before |-> file.data,
     after |-> applied.text,
     raised |-> applied.raised,
     written |-> ~applied.raised,
     staged |-> ~applied.raised,
     errs |-> <<>>]

\* lines 220-230, on the text the loop left: written back, and staged when a
\* new parse finds no conflict in it
Resolution(vfile, strategy, file, applied) ==
    [path |-> vfile.path,
     current_regex |-> vfile.current_regex,
     incoming_regex |-> vfile.incoming_regex,
     strategy |-> strategy,
     exists |-> TRUE,
     before |-> file.data,
     after |-> applied.text,
     raised |-> applied.raised,
     written |-> ~applied.raised,
     staged |-> ~applied.raised /\ parse_merge_conflicts(applied.text) = <<>>,
     errs |-> <<>>]

\* lines 202-204
NoVersionFile(vfile, strategy) ==
    [path |-> vfile.path,
     current_regex |-> vfile.current_regex,
     incoming_regex |-> vfile.incoming_regex,
     strategy |-> strategy,
     exists |-> FALSE,
     before |-> <<>>,
     after |-> <<>>,
     raised |-> FALSE,
     written |-> FALSE,
     staged |-> FALSE,
     errs |-> <<ErrNoVersionFile>>]

\* lines 211-230, on the conflicts parsed from the text read
ResolveConflicts(vfile, strategy, file, conflicts) ==
    Resolution(vfile, strategy, file,
               ApplyConflicts(vfile, strategy, conflicts, Len(conflicts),
                              file.data))

\* lines 195-230, file what the working tree holds at the path
resolve_version_conflicts(vfile, strategy, file) ==
    IF ~file.exists THEN NoVersionFile(vfile, strategy)
    ELSE ResolveConflicts(vfile, strategy, file, parse_merge_conflicts(file.data))

(***************************************************************************)
(* do_merge.  The primary file is path 1, in the current commit's tree     *)
(* (current_blob) and in the tree of MERGE_HEAD (incoming_blob); what the  *)
(* working tree holds at a path is drawn when resolve_version_conflicts    *)
(* reads it.                                                               *)
(***************************************************************************)
\* longest file list handed to do_merge
MaxMergeFiles == 2

V100 == <<"1", ".", "0", ".", "0">>
V110 == <<"1", ".", "1", ".", "0">>

\* the primary file in a commit: absent, a version, or no version at all
MergeBlobs ==
    {NoBlob} \cup {[exists |-> TRUE, data |-> t] : t \in {V100, V110, <<"x">>}}

\* \d\.\d\.\d, a search template filled with the version 1.0.0, .* and the
\* pattern "[", which does not compile
MergePatterns ==
    {<<"\\", "d", "\\", ".", "\\", "d", "\\", ".", "\\", "d">>,
     V100,
     <<".", "*">>,
     <<"[">>}

MergeFileLists == {[i \in 1..n |-> i] : n \in 0..MaxMergeFiles}

\* the lists cli.main builds are of one length; an empty list is left in for
\* the missing-input check
MergeRegexLists(n) == {<<>>} \cup [1..n -> MergePatterns]

Line(text) == text \o <<"\n">>
StartLine == StartMarker \o <<"H", "\n">>
EndLine == EndMarker \o <<"b", "\n">>

\* a conflict region as git writes it
Conflict(current, incoming) ==
    StartLine \o current \o Divider \o incoming \o EndLine

\* what the working tree may hold at a tracked path
WorkTexts ==
    {Line(V100),
     Conflict(Line(V100), Line(V110)),
     Conflict(Line(V110), Line(V100)),
     Line(<<"x">>) \o Conflict(Line(<<"x">>) \o Line(V100),
                               Line(<<"x">>) \o Line(V110)) \o Line(<<"x">>),
     Conflict(Line(V100) \o Line(V100), Line(V110)),
     Conflict(Line(V100) \o Line(<<"x">>), Line(V110)),
     Conflict(Line(<<"x">>), Line(<<"y">>)),
     Conflict(Line(V100), Line(V110)) \o Line(<<"x">>)
         \o Conflict(Line(V100), Line(V110))}

NoFile == [exists |-> FALSE, data |-> <<>>]
WorkFiles == {NoFile} \cup {[exists |-> TRUE, data |-> t] : t \in WorkTexts}

InitMerge ==
    /\ pc = "Unmerged"
    /\ outcome = "running"
    /\ retval = "None"
    /\ errors = <<>>
    /\ oks = 0
    /\ old_version_str = <<>>
    /\ new_version_str = <<>>
    /\ abort = FALSE
    /\ regex_str = <<>>
    /\ to_search_str = <<>>
    /\ literal_consulted = FALSE
    /\ files \in MergeFileLists
    /\ file_regexes \in MergeRegexLists(Len(files))
    /\ files_in = files
    /\ file_regexes_in = file_regexes
    /\ base_blob = NoBlob
    /\ current_blob \in MergeBlobs
    /\ in_scope = TRUE
    /\ other_diff = FALSE
    /\ version_file = 0
    /\ version_regex = <<>>
    /\ old_version = <<>>
    /\ new_version = <<>>
    /\ error_detected = FALSE
    /\ sync_index = 1
    /\ diffs = 0
    /\ reads = <<>>
    /\ phases = <<"Unmerged">>
    /\ merge_strategy \in MergeStrategies
    /\ merge_strategy_in = merge_strategy
    /\ conflicted_files \in SUBSET (1..MaxMergeFiles)
    /\ incoming_blob \in MergeBlobs
    /\ incoming_version = <<>>
    /\ current_version = <<>>
    /\ conflicted_version_files = <<>>
    /\ merge_index = 1
    /\ resolutions = <<>>
    /\ TurnIdle
    /\ UnitIdle

mergeFrame == <<compareVars, abort, searchVars, base_blob, current_blob,
                in_scope, other_diff, files, file_regexes, files_in,
                file_regexes_in, version_file, version_regex, old_version,
                new_version, error_detected, sync_index, diffs,
                merge_strategy_in, conflicted_files, incoming_blob, turnVars, unitVars>>

\* lines 148-157
Unmerged ==
    /\ pc = "Unmerged"
    /\ IF Cardinality(conflicted_files) = 0
       THEN Finish(Returned("None", 1))
       ELSE IF files = <<>> \/ file_regexes = <<>>
       THEN Finish(error(ErrNoFiles, TRUE))
       ELSE GoOn(Returned("None", 0), "IncomingVersions")
    /\ UNCHANGED <<mergeFrame, reads, merge_strategy, incoming_version,
                   current_version, conflicted_version_files, merge_index,
                   resolutions>>

\* lines 161-163, on what parse_versions_from_version_file gave
VersionsStep(parsed) ==
    /\ reads' = reads \o parsed.reads
    /\ IF parsed.exit \/ parsed.raised
       THEN /\ Finish([ret |-> "None", errs |-> parsed.errs, oks |-> parsed.oks,
                       exit |-> parsed.exit, raised |-> parsed.raised])
            /\ UNCHANGED <<incoming_version, current_version>>
       ELSE /\ incoming_version' = parsed.old
            /\ current_version' = parsed.new
            /\ GoOn([ret |-> "None", errs |-> parsed.errs, oks |-> parsed.oks,
                     exit |-> FALSE, raised |-> FALSE], "SelectStrategy")

\* lines 159-163
IncomingVersions ==
    /\ pc = "IncomingVersions"
    /\ VersionsStep(parse_versions_from_version_file(
                        incoming_blob, current_blob, files[1], file_regexes[1]))
    /\ UNCHANGED <<mergeFrame, merge_strategy, conflicted_version_files,
                   merge_index, resolutions>>

\* the two versions handed to compare_versions the other way round
StrategyOfSwapped(strategy, incoming, current) ==
    IF strategy \notin {"HIGHER", "LOWER"} THEN strategy
    ELSE IF \/ compare_versions(current, incoming, FALSE).ret /\ strategy = "HIGHER"
            \/ ~compare_versions(current, incoming, FALSE).ret /\ strategy = "LOWER"
    THEN "CURRENT"
    ELSE "INCOMING"

\* the requested strategy handed on as it is
StrategyKept(strategy, incoming, current) == strategy

\* equal versions taken as a bigger current version
StrategyOfEqualIsBigger(strategy, incoming, current) ==
    IF strategy \notin {"HIGHER", "LOWER"} THEN strategy
    ELSE IF (compare_versions(incoming, current, FALSE).ret \/ incoming = current)
              = (strategy = "HIGHER")
    THEN "CURRENT"
    ELSE "INCOMING"

\* lines 165-172: the strategy the resolver is given
StrategyOf(strategy, incoming, current) ==
    IF strategy \notin {"HIGHER", "LOWER"} THEN strategy
    ELSE IF \/ compare_versions(incoming, current, FALSE).ret /\ strategy = "HIGHER"
            \/ ~compare_versions(incoming, current, FALSE).ret /\ strategy = "LOWER"
    THEN "CURRENT"
    ELSE "INCOMING"

\* lines 165-173
SelectStrategy ==
    /\ pc = "SelectStrategy"
    /\ merge_strategy' = StrategyOf(merge_strategy, incoming_version, current_version)
    /\ IF merge_strategy \in {"HIGHER", "LOWER"}
       THEN GoOn([compare_versions(incoming_version, current_version, FALSE)
                     EXCEPT !.exit = FALSE], "VersionFiles")
       ELSE GoOn(Returned("None", 0), "VersionFiles")
    /\ UNCHANGED <<mergeFrame, reads, incoming_version, current_version,
                   conflicted_version_files, merge_index, resolutions>>

\* lines 176-180
VersionFile(file, file_regex) ==
    [path |-> file,
     current_regex |-> file_regex,
     incoming_regex |-> Replace(file_regex, current_version, incoming_version)]

\* lines 175-183: zip(files, file_regexes), the conflicted files of it
VersionFilesOf(pairs) ==
    [i \in DOMAIN pairs |-> VersionFile(pairs[i][1], pairs[i][2])]

\* a VersionFile built for every tracked file, conflicted or not
VersionFilesUnfiltered ==
    /\ pc = "VersionFiles"
    /\ conflicted_version_files' = VersionFilesOf(Zip(files, file_regexes))
    /\ GoOn(Returned("None", 0), "ResolveFile")
    /\ UNCHANGED <<mergeFrame, reads, merge_strategy, incoming_version,
                   current_version, merge_index, resolutions>>

\* lines 175-184
VersionFiles ==
    /\ pc = "VersionFiles"
    /\ conflicted_version_files' =
           VersionFilesOf(SelectSeq(Zip(files, file_regexes),
                                    LAMBDA p : p[1] \in conflicted_files))
    /\ GoOn(Returned("None", 0), "ResolveFile")
    /\ UNCHANGED <<mergeFrame, reads, merge_strategy, incoming_version,
                   current_version, merge_index, resolutions>>

\* line 187, on what resolve_version_conflicts did
ResolveStep(r) ==
    /\ resolutions' = Append(resolutions, r)
    /\ IF r.raised
       THEN /\ Finish([ret |-> "None", errs |-> r.errs, oks |-> 0,
                       exit |-> FALSE, raised |-> TRUE])
            /\ UNCHANGED merge_index
       ELSE /\ errors' = errors \o r.errs
            /\ merge_index' = merge_index + 1
            /\ UNCHANGED <<pc, phases, outcome, retval, oks>>

\* lines 186-187: one turn of the loop over conflicted_version_files
ResolveFile ==
    /\ pc = "ResolveFile"
    /\ merge_index <= Len(conflicted_version_files)
    /\ \E file \in WorkFiles :
         ResolveStep(resolve_version_conflicts(
                         conflicted_version_files[merge_index], merge_strategy,
                         file))
    /\ UNCHANGED <<mergeFrame, reads, merge_strategy, incoming_version,
                   current_version, conflicted_version_files>>

\* lines 189-192
MergeDone ==
    /\ pc = "ResolveFile"
    /\ merge_index > Len(conflicted_version_files)
    /\ Finish(Returned("None", 1))
    /\ UNCHANGED <<mergeFrame, reads, merge_strategy, incoming_version,
                   current_version, conflicted_version_files, merge_index,
                   resolutions>>

NextMerge ==
    \/ Unmerged
    \/ IncomingVersions
    \/ SelectStrategy
    \/ VersionFiles
    \/ ResolveFile
    \/ MergeDone

SpecMerge == InitMerge /\ [][NextMerge]_vars

(***************************************************************************)
(* The claims.                                                             *)
(***************************************************************************)
\* semver.org, 11: precedence stated on the fields of two versions
CoreBefore(a, b) ==
    \/ a.major < b.major
    \/ a.major = b.major /\ a.minor < b.minor
    \/ a.major = b.major /\ a.minor = b.minor /\ a.patch < b.patch

SameCore(a, b) == a.major = b.major /\ a.minor = b.minor /\ a.patch = b.patch

\* ASCII order of two identifiers
LexBefore(x, y) ==
    \E k \in 1..(Len(x) + 1) :
        /\ k - 1 <= Len(y)
        /\ \A i \in 1..(k - 1) : x[i] = y[i]
        /\ \/ k <= Len(x) /\ k <= Len(y) /\ CharCode(x[k]) < CharCode(y[k])
           \/ k = Len(x) + 1 /\ k <= Len(y)

IdBefore(x, y) ==
    IF IsNumeric(x) /\ IsNumeric(y) THEN ToInt(x) < ToInt(y)
    ELSE IF IsNumeric(x) THEN TRUE
    ELSE IF IsNumeric(y) THEN FALSE
    ELSE LexBefore(x, y)

PrereleaseBefore(p, q) ==
    LET P == SplitOn(p, ".")
        Q == SplitOn(q, ".")
    IN  \E k \in 1..(Len(P) + 1) :
            /\ k - 1 <= Len(Q)
            /\ \A i \in 1..(k - 1) : P[i] = Q[i]
            /\ \/ k <= Len(P) /\ k <= Len(Q) /\ IdBefore(P[k], Q[k])
               \/ k = Len(P) + 1 /\ k <= Len(Q)

Precedes(a, b) ==
    \/ CoreBefore(a, b)
    \/ /\ SameCore(a, b)
       /\ a.prerelease # <<>>
       /\ b.prerelease = <<>> \/ PrereleaseBefore(a.prerelease, b.prerelease)

Succeeded == outcome = "returned" /\ retval = TRUE

\* a failure of compare_versions: sys.exit(1) with abort, else False
FailedCompare ==
    IF abort THEN outcome = "exit1" ELSE outcome = "returned" /\ retval = FALSE

\* C1: for parseable A and B, compare_versions(A, B) succeeds exactly when A
\* precedes B under semver precedence (so it fails for B against A and for A
\* against itself, as "not increasing")
C1_CompareFollowsPrecedence ==
    LET A == ParseVersion(old_version_str)
        B == ParseVersion(new_version_str)
    IN  (pc = "done" /\ A.ok /\ B.ok) =>
            IF Precedes(A, B)
            THEN Succeeded /\ errors = <<>> /\ ~Precedes(B, A)
            ELSE FailedCompare /\ errors = <<ErrNotGreater>>

\* 0.2.0 against 0.10.0: the minor fields compare as numbers
C1_Witness ==
    /\ pc = "done"
    /\ old_version_str = Dot(<<"0">>, <<"2">>, <<"0">>)
    /\ new_version_str = Dot(<<"0">>, <<"1", "0">>, <<"0">>)
    /\ Succeeded

\* the synchronized files' reads, in order
SyncReads == SelectSeq(reads, LAMBDA r : r.path # version_file)

\* what the locator extracts for a read of a synchronized file, the empty
\* text for a missing file or a pattern that is not found
Extracted(r, rx) ==
    IF ~r.blob.exists THEN <<>>
    ELSE IF ReSearch(rx, r.blob.data).found THEN ReSearch(rx, r.blob.data).group0
    ELSE IF Contains(r.blob.data, rx) THEN rx
    ELSE <<>>

Entered(p) == \E i \in DOMAIN phases : phases[i] = p

\* C2: once the primary check has passed every remaining (file, regex) pair
\* is examined at the current commit, do_check succeeds iff every extracted
\* text contains the new primary version, and a failure is signalled once,
\* after all files were examined
C2_EverySyncFileExamined ==
    (pc = "Done" /\ Entered("SyncFileCheck")) =>
        LET n == Min(Len(files), Len(file_regexes))
        IN  /\ Len(SyncReads) = n
            /\ \A i \in 1..n :
                 /\ SyncReads[i].path = files[i]
                 /\ SyncReads[i].commit = "current_commit"
            /\ outcome \in {"returned", "exit1"}
            /\ outcome = "returned" <=>
                 \A i \in 1..n :
                     Contains(Extracted(SyncReads[i], file_regexes[i]), new_version)
            /\ outcome = "returned" => retval = TRUE
            /\ outcome = "exit1" =>
                 /\ errors[Len(errors)] = ErrNotAllCorrect
                 /\ \A i \in 1..(Len(errors) - 1) : errors[i] # ErrNotAllCorrect

\* C3: with an empty scoped diff do_check returns success without any access
\* to a commit's tree and without ending the process
C3_EmptyDiffReturnsEarly ==
    (/\ pc = "Done"
     /\ files_in # <<>> /\ file_regexes_in # <<>>
     /\ ~other_diff
     /\ ~in_scope \/ base_blob = current_blob) =>
        /\ Succeeded
        /\ reads = <<>>
        /\ errors = <<>>
        /\ phases = <<"NoFiles", "ScopeDiff", "Done">>

\* the primary file changed, but outside the cwd prefix, and nothing under it
C3_Witness ==
    /\ pc = "Done"
    /\ files_in # <<>> /\ file_regexes_in # <<>>
    /\ ~other_diff /\ ~in_scope
    /\ base_blob.exists /\ current_blob.exists /\ base_blob # current_blob
    /\ Succeeded

\* C4: a primary file absent from the base commit and present in the current
\* one is compared against the empty old version, and the primary check
\* passes whenever the text extracted at the current commit parses
C4_NewFileAccepted ==
    (/\ pc = "Done"
     /\ Entered("PrimaryVersionCheck")
     /\ ~base_blob.exists /\ current_blob.exists
     /\ ~_search_or_error(version_regex, current_blob.data, TRUE).raised
     /\ _search_or_error(version_regex, current_blob.data, TRUE).errs = <<>>
     /\ ParseVersion(_search_or_error(version_regex, current_blob.data, TRUE).ret).ok)
    =>  /\ Entered("SyncFileCheck")
        /\ old_version = <<>>
        /\ new_version = _search_or_error(version_regex, current_blob.data, TRUE).ret
        /\ ErrNewVersion \notin {errors[i] : i \in DOMAIN errors}
        /\ ErrNotGreater \notin {errors[i] : i \in DOMAIN errors}

C4_Witness ==
    /\ pc = "Done"
    /\ ~base_blob.exists /\ current_blob.exists
    /\ Entered("SyncFileCheck")
    /\ new_version = V001
    /\ Succeeded

\* C5: with the primary file in both commits and a non-empty scoped diff, the
\* check fails if the primary file is not among the changed paths
C5_PrimaryMustBeInDiff ==
    (/\ pc = "Done"
     /\ Entered("PrimaryVersionCheck")
     /\ base_blob.exists /\ current_blob.exists
     /\ ~(in_scope /\ base_blob # current_blob)) => ~Succeeded

\* C6: compare_versions fails whenever a version text it is given does not
\* parse: an unparsable new version (also with an empty old one), and an
\* unparsable old version, which never takes the "first version" path
C6_UnparsableFails ==
    (/\ pc = "done"
     /\ \/ ~ParseVersion(new_version_str).ok
        \/ old_version_str # <<>> /\ ~ParseVersion(old_version_str).ok) =>
        /\ FailedCompare
        /\ oks = 0
        /\ Len(errors) = 1

\* an unparsable old version before a valid new one
C6_Witness ==
    /\ pc = "done"
    /\ old_version_str = <<"x">>
    /\ ParseVersion(new_version_str).ok
    /\ ~abort
    /\ outcome = "returned" /\ retval = FALSE

\* C7: a pattern that does not compile or does not match as a regex, but
\* whose text is in the content, is returned itself, and no error is reported
C7_LiteralFallback ==
    (/\ pc = "done"
     /\ ~ReSearch(regex_str, to_search_str).found
     /\ Contains(to_search_str, regex_str)) =>
        /\ outcome = "returned"
        /\ retval = regex_str
        /\ errors = <<>>

\* C8: whenever the pattern matches the content as a regex, the result is the
\* text of the leftmost match and the literal test is not made
C8_RegexFirst ==
    LET m == ReSearch(regex_str, to_search_str)
    IN  (pc = "done" /\ m.found) =>
            /\ outcome = "returned"
            /\ retval = SubSeq(to_search_str, m.start, m.stop - 1)
            /\ \A j \in 1..(m.start - 1) :
                 MatchFrom(Compile(regex_str).items, 1, to_search_str, j) = 0
            /\ ~literal_consulted
            /\ errors = <<>>

\* the pattern matches as a regex and is in the content as text too
C8_Witness ==
    /\ pc = "done"
    /\ ReSearch(regex_str, to_search_str).found
    /\ Contains(to_search_str, regex_str)
    /\ outcome = "returned"
    /\ retval # regex_str

\* C9: with an empty file list or an empty regex list do_check ends in
\* sys.exit(1) with the missing-input error, before any diff and any access
\* to a commit's tree
C9_MissingInputFailsFirst ==
    (files_in = <<>> \/ file_regexes_in = <<>>) =>
        /\ diffs = 0
        /\ reads = <<>>
        /\ pc = "Done" =>
             /\ outcome = "exit1"
             /\ errors = <<ErrNoFiles>>
             /\ phases = <<"NoFiles", "Done">>

C9_Witness ==
    /\ pc = "Done"
    /\ files_in # <<>> /\ file_regexes_in = <<>>
    /\ outcome = "exit1"

\* the version line do_merge has to keep for the strategy it was called with
KeptVersion ==
    IF (merge_strategy_in = "HIGHER")
         = Precedes(ParseVersion(incoming_version), ParseVersion(current_version))
    THEN current_version
    ELSE incoming_version

\* C10: with HIGHER do_merge resolves with the side of the primary file that
\* holds the version of higher precedence, with LOWER the side of lower
\* precedence, for two parseable versions of different precedence; a region
\* that holds the current version line against the incoming one is replaced
\* by the line of that side alone
C10_HigherLowerSelectsSide ==
    (/\ Entered("VersionFiles")
     /\ merge_strategy_in \in {"HIGHER", "LOWER"}
     /\ ParseVersion(incoming_version).ok
     /\ ParseVersion(current_version).ok
     /\ \/ Precedes(ParseVersion(incoming_version), ParseVersion(current_version))
        \/ Precedes(ParseVersion(current_version), ParseVersion(incoming_version)))
    =>  /\ merge_strategy =
              IF KeptVersion = current_version THEN "CURRENT" ELSE "INCOMING"
        /\ \A i \in DOMAIN resolutions :
              /\ resolutions[i].strategy = merge_strategy
              /\ (/\ resolutions[i].path = files[1]
                  /\ resolutions[i].exists
                  /\ resolutions[i].before =
                        Conflict(Line(current_version), Line(incoming_version)))
                 => /\ resolutions[i].after = Line(KeptVersion)
                    /\ resolutions[i].staged

\* current 1.0.0 against incoming 1.1.0 with HIGHER: the 1.1.0 line is kept
C10_Witness ==
    /\ pc = "Done"
    /\ merge_strategy_in = "HIGHER"
    /\ current_version = V100
    /\ incoming_version = V110
    /\ merge_strategy = "INCOMING"
    /\ \E i \in DOMAIN resolutions :
         /\ resolutions[i].path = files[1]
         /\ resolutions[i].before = Conflict(Line(V100), Line(V110))
         /\ resolutions[i].after = Line(V110)

(***************************************************************************)
(* One turn of the resolver's loop (merge_utils.py lines 213-218) on its    *)
(* own: a conflict region with bodies of up to MaxBodyLines lines, resolved *)
(* for a VersionFile with every strategy.                                   *)
(***************************************************************************)
MaxBodyLines == 2

Digit3 == <<"\\", "d", "\\", ".", "\\", "d", "\\", ".", "\\", "d">>

BodyLines == {Line(V100), Line(V110), Line(<<"x">>)}

\* the sequences of at most n body lines
LineSeqs(n) == UNION {[1..k -> BodyLines] : k \in 0..n}

\* the VersionFiles do_merge builds at lines 175-183: a pattern that holds the
\* current version has it replaced by the incoming one, another is kept
TurnFiles ==
    {[path |-> 1, current_regex |-> Digit3, incoming_regex |-> Digit3],
     [path |-> 1, current_regex |-> V100, incoming_regex |-> V110],
     [path |-> 1, current_regex |-> V110, incoming_regex |-> V100]}

\* the lines of a file with one conflict region, between the lines around
RegionLines(around, cur, inc) ==
    around \o <<StartLine>> \o cur \o <<Divider>> \o inc \o <<EndLine>> \o around

\* the MergeConflict parse_merge_conflicts builds for that region
RegionConflict(around, cur, inc) ==
    from_regex_match(RegionLines(around, cur, inc), Len(around) + 1,
                     Len(around) + Len(cur) + 2,
                     Len(around) + Len(cur) + Len(inc) + 3)

InitTurn ==
    /\ pc = "parse_version_conflict_lines"
    /\ outcome = "running"
    /\ retval = "None"
    /\ errors = <<>>
    /\ oks = 0
    /\ abort = FALSE
    /\ ArgsIdle
    /\ CheckIdle
    /\ MergeIdle
    /\ UnitIdle
    /\ \E around \in {<<>>, <<Line(<<"x">>)>>} :
       \E cur \in LineSeqs(MaxBodyLines), inc \in LineSeqs(MaxBodyLines) :
         /\ turn_conflict = RegionConflict(around, cur, inc)
         /\ turn_text = Join(RegionLines(around, cur, inc), 1,
                             Len(RegionLines(around, cur, inc)))
    /\ turn_file \in TurnFiles
    /\ turn_strategy \in MergeStrategies
    /\ turn_splits = <<>>
    /\ turn_result = <<>>

turnFrame == <<resultVars, compareVars, abort, searchVars, repoVars, checkVars,
               mergeVars, unitVars, turn_conflict, turn_file, turn_strategy>>

\* line 214; line 215 skips a conflict without a pair of version lines
ParseVersionConflictLines ==
    /\ pc = "parse_version_conflict_lines"
    /\ turn_splits' = parse_version_conflict_lines(turn_file, turn_conflict).lines
    /\ pc' = IF Len(turn_splits') > 0 THEN "get_split_merge_result" ELSE "done"
    /\ UNCHANGED <<turnFrame, turn_result, turn_text>>

\* lines 216-217
GetSplitMergeResult ==
    /\ pc = "get_split_merge_result"
    /\ turn_result' = get_split_merge_result(turn_conflict, turn_splits,
                                              turn_strategy)
    /\ pc' = "apply_merge"
    /\ UNCHANGED <<turnFrame, turn_splits, turn_text>>

\* line 218
ApplyMerge ==
    /\ pc = "apply_merge"
    /\ turn_text' = apply_merge(turn_conflict, turn_text, turn_result)
    /\ pc' = "done"
    /\ UNCHANGED <<turnFrame, turn_splits, turn_result>>

NextTurn == ParseVersionConflictLines \/ GetSplitMergeResult \/ ApplyMerge

SpecTurn == InitTurn /\ [][NextTurn]_vars

\* the text the turn left in the place of the conflict region: the file text
\* between the lines around the region, which are as long before it as after
RegionAfter ==
    SubSeq(turn_text, turn_conflict.start_index + 1,
           Len(turn_text) - turn_conflict.start_index)

\* whether a line is one of the three marker lines of the conflict region
IsMarker(line) ==
    line \in {turn_conflict.start_line, Divider, turn_conflict.end_line}

NoMarkerIn(text) == \A i \in DOMAIN splitlines(text) : ~IsMarker(splitlines(text)[i])

\* the turn is over, the file text is what the resolver goes on with
TurnDone == pc = "done"

\* each body of the region is one line, matched by its side's version regex
OneVersionLineEach ==
    /\ Len(splitlines(turn_conflict.current)) = 1
    /\ Len(splitlines(turn_conflict.incoming)) = 1
    /\ is_regex_match(turn_file.current_regex, turn_conflict.current).match
    /\ is_regex_match(turn_file.incoming_regex, turn_conflict.incoming).match

\* C11 as the spec states it: a conflict region resolved with BOTH has exactly
\* its current body followed by its incoming body in its place, and no
\* conflict marker in that place
C11_BothYieldsConcatenation ==
    (TurnDone /\ turn_strategy = "BOTH" /\ Len(turn_splits) > 0) =>
        /\ RegionAfter = turn_conflict.current \o turn_conflict.incoming
        /\ NoMarkerIn(RegionAfter)

\* C11, amended: resolving with BOTH a conflict region whose bodies are one
\* version line each leaves exactly the current body followed by the incoming
\* body in its place, and no conflict marker in that place
C11_BothOnVersionLines ==
    (TurnDone /\ turn_strategy = "BOTH" /\ OneVersionLineEach) =>
        /\ RegionAfter = turn_conflict.current \o turn_conflict.incoming
        /\ NoMarkerIn(RegionAfter)

\* the region <1.0.0 | 1.1.0> between two other lines, resolved with BOTH to
\* the two version lines
C11_Witness ==
    /\ TurnDone
    /\ turn_strategy = "BOTH"
    /\ turn_conflict.current = Line(V100)
    /\ turn_conflict.incoming = Line(V110)
    /\ turn_text = Line(<<"x">>) \o Line(V100) \o Line(V110) \o Line(<<"x">>)

\* what the spec has a strategy emit for a pair of version lines
PairText(strategy, pair) ==
    CASE strategy = "CURRENT" -> pair[1]
      [] strategy = "INCOMING" -> pair[2]
      [] strategy = "BOTH" -> pair[1] \o pair[2]
      [] strategy = "NEITHER" -> <<>>

RECURSIVE PairTexts(_, _, _)
PairTexts(strategy, pairs, k) ==
    IF k > Len(pairs) THEN <<>>
    ELSE PairText(strategy, pairs[k]) \o PairTexts(strategy, pairs, k + 1)

NonMarkerLines(text) == SelectSeq(splitlines(text), LAMBDA l : ~IsMarker(l))

\* the bodies hold nothing but the paired version lines
OnlyPairs ==
    /\ Len(splitlines(turn_conflict.current)) = Len(turn_splits)
    /\ Len(splitlines(turn_conflict.incoming)) = Len(turn_splits)

\* C12: a turn that paired version lines emits for each pair the current line
\* (CURRENT), the incoming line (INCOMING), the current then the incoming line
\* (BOTH) or nothing (NEITHER), without a conflict marker: bodies of nothing
\* but paired lines leave exactly the pairs' texts in the region's place, and
\* in every case the lines outside markers are the bodies' lines less the
\* lines the strategy drops from each pair
C12_PairEmittedPerStrategy ==
    (/\ TurnDone
     /\ Len(turn_splits) > 0
     /\ turn_strategy \in {"CURRENT", "INCOMING", "BOTH", "NEITHER"}) =>
        /\ OnlyPairs => RegionAfter = PairTexts(turn_strategy, turn_splits, 1)
        /\ \A k \in DOMAIN turn_splits :
             /\ NoMarkerIn(PairText(turn_strategy, turn_splits[k]))
             /\ Contains(RegionAfter, PairText(turn_strategy, turn_splits[k]))
        /\ Len(NonMarkerLines(RegionAfter))
             = Len(splitlines(turn_conflict.current))
               + Len(splitlines(turn_conflict.incoming))
               - 2 * Len(turn_splits)
               + Len(splitlines(PairTexts(turn_strategy, turn_splits, 1)))

\* two pairs resolved with INCOMING to the two incoming lines
C12_Witness ==
    /\ TurnDone
    /\ turn_strategy = "INCOMING"
    /\ turn_conflict.current = Line(V100) \o Line(V100)
    /\ turn_conflict.incoming = Line(V110) \o Line(V110)
    /\ Len(turn_splits) = 2
    /\ RegionAfter = Line(V110) \o Line(V110)

\* the version lines of the two bodies, those the side's regex matches
CurrentVersionLines ==
    VersionLines(turn_file.current_regex, splitlines(turn_conflict.current)).lines

IncomingVersionLines ==
    VersionLines(turn_file.incoming_regex, splitlines(turn_conflict.incoming)).lines

\* line j of the lines lies inside a conflict region: between a start line and
\* an end line of the region's markers with neither of them in between
InsideMarkers(lines, j) ==
    /\ ~IsMarker(lines[j])
    /\ \E s \in 1..(j - 1), e \in (j + 1)..Len(lines) :
         /\ lines[s] = turn_conflict.start_line
         /\ lines[e] = turn_conflict.end_line
         /\ \A t \in (s + 1)..(e - 1) :
              lines[t] \notin {turn_conflict.start_line, turn_conflict.end_line}

InsideLines(lines) ==
    {lines[j] : j \in {i \in DOMAIN lines : InsideMarkers(lines, i)}}

OutsideCount(lines) ==
    Cardinality({j \in DOMAIN lines :
                    ~IsMarker(lines[j]) /\ ~InsideMarkers(lines, j)})

\* the number of lines the strategy emits for the pairs outside markers
EmittedCount ==
    IF turn_strategy \in {"CURRENT", "INCOMING", "BOTH", "NEITHER"}
    THEN Len(splitlines(PairTexts(turn_strategy, turn_splits, 1)))
    ELSE 0

\* the pairs are the positional pairs of the version lines cur and inc up to
\* the shorter count, only the pairs' lines are outside markers in the lines
\* of the result, and every unpaired version line is inside
PairedUpToShorter(cur, inc, lines) ==
    /\ Len(turn_splits) = Min(Len(cur), Len(inc))
    /\ \A k \in DOMAIN turn_splits : turn_splits[k] = <<cur[k], inc[k]>>
    /\ OutsideCount(lines) = EmittedCount
    /\ \A k \in (Len(turn_splits) + 1)..Len(cur) : cur[k] \in InsideLines(lines)
    /\ \A k \in (Len(turn_splits) + 1)..Len(inc) : inc[k] \in InsideLines(lines)

\* C13: when the bodies hold different numbers of version lines, the lines are
\* paired by position up to the shorter count, only the pairs' lines leave the
\* conflict markers, and every unpaired version line lies inside a conflict
\* region of the result
C13_UnpairedStayInConflict ==
    (TurnDone /\ Len(CurrentVersionLines) # Len(IncomingVersionLines)) =>
        PairedUpToShorter(CurrentVersionLines, IncomingVersionLines,
                          splitlines(RegionAfter))

\* two current version lines against one incoming, resolved with CURRENT: the
\* first current line is kept, the second stays inside markers
C13_Witness ==
    /\ TurnDone
    /\ turn_strategy = "CURRENT"
    /\ turn_conflict.current = Line(V100) \o Line(V100)
    /\ turn_conflict.incoming = Line(V110)
    /\ RegionAfter = Line(V100) \o Conflict(Line(V100), <<>>)

\* the lines hold a conflict region: a start line, a divider line after it
\* and an end line after that
HasRegion(lines) ==
    \E s \in DOMAIN lines, d \in DOMAIN lines, e \in DOMAIN lines :
        /\ s < d
        /\ d < e
        /\ IsLine(lines[s], "start")
        /\ IsLine(lines[d], "divider")
        /\ IsLine(lines[e], "end")

\* C14: a file is staged exactly when resolve_version_conflicts wrote it back
\* and the text it wrote holds no conflict region
C14_StagedIffNoConflictLeft ==
    \A i \in DOMAIN resolutions :
        resolutions[i].staged <=>
            (resolutions[i].written /\ ~HasRegion(splitlines(resolutions[i].after)))

\* one run that rewrote two files: one without a conflict left, staged, and
\* one whose conflict holds no version line, left as it was and not staged
C14_Witness ==
    \E i \in DOMAIN resolutions, j \in DOMAIN resolutions :
        /\ resolutions[i].written
        /\ resolutions[i].before = Conflict(Line(V100), Line(V110))
        /\ resolutions[i].after \in {Line(V100), Line(V110)}
        /\ resolutions[i].staged
        /\ resolutions[j].written
        /\ resolutions[j].after = Conflict(Line(<<"x">>), Line(<<"y">>))
        /\ ~resolutions[j].staged

\* the tracked paths: those of the caller's list of files
Tracked == {files_in[i] : i \in DOMAIN files_in}

\* the paths resolve_version_conflicts was called for: the only calls that
\* open, write or stage a file of the working tree
Touched == {resolutions[i].path : i \in DOMAIN resolutions}

\* C15: do_merge opens, rewrites and stages only tracked files of the unmerged
\* set, a tracked file without an unmerged entry is never handed to the
\* resolver, and with an empty unmerged set do_merge returns after one ok()
\* without an error, a read of a commit or a call of the resolver, whatever
\* the two lists are
C15_OnlyUnmergedTouched ==
    /\ Touched \subseteq (Tracked \cap conflicted_files)
    /\ \A i \in DOMAIN resolutions :
         (resolutions[i].written \/ resolutions[i].staged) =>
            resolutions[i].path \in conflicted_files
    /\ conflicted_files = {} =>
         /\ resolutions = <<>>
         /\ reads = <<>>
         /\ errors = <<>>
         /\ pc = "Done" => (outcome = "returned" /\ oks = 1)

\* two tracked files of which only the second is unmerged: the run is over,
\* the second file was rewritten and the first never handed to the resolver
C15_Witness ==
    /\ pc = "Done"
    /\ outcome = "returned"
    /\ files_in = <<1, 2>>
    /\ conflicted_files = {2}
    /\ Len(resolutions) = 1
    /\ resolutions[1].path = 2
    /\ resolutions[1].written

\* C16: a merge run given files and regexes, which no exception leaves, never
\* ends in sys.exit(1) over a failure that concerns one file, and once it is
\* over every unmerged tracked file was handed to the resolver
C16_MergeFailuresNonFatal ==
    (files_in # <<>> /\ file_regexes_in # <<>> /\ outcome # "raised") =>
        /\ outcome # "exit1"
        /\ (pc = "Done" /\ conflicted_files # {}) =>
              Touched = Tracked \cap conflicted_files

(***************************************************************************)
(* search_commit_file on its own: a commit that is valid or not, the file  *)
(* absent from its tree or holding any content up to the bound, any        *)
(* pattern up to the bound, abort or not.                                  *)
(***************************************************************************)
InitSearchCommit ==
    /\ pc = "search_commit_file"
    /\ outcome = "running"
    /\ retval = <<>>
    /\ errors = <<>>
    /\ oks = 0
    /\ old_version_str = <<>>
    /\ new_version_str = <<>>
    /\ abort \in BOOLEAN
    /\ regex_str \in TextsUpTo(PatternAlphabet, MaxPatternLen)
    /\ to_search_str = <<>>
    /\ literal_consulted = FALSE
    /\ files = <<>>
    /\ file_regexes = <<>>
    /\ files_in = <<>>
    /\ file_regexes_in = <<>>
    /\ base_blob = NoBlob
    /\ current_blob \in {NoBlob} \cup
           {[exists |-> TRUE, data |-> t] :
               t \in TextsUpTo(ContentAlphabet, MaxContentLen)}
    /\ in_scope = TRUE
    /\ other_diff = FALSE
    /\ version_file = 0
    /\ version_regex = <<>>
    /\ old_version = <<>>
    /\ new_version = <<>>
    /\ error_detected = FALSE
    /\ sync_index = 1
    /\ diffs = 0
    /\ reads = <<>>
    /\ phases = <<>>
    /\ MergeIdle
    /\ TurnIdle
    /\ commit_valid \in BOOLEAN
    /\ default_regex = <<>>
    /\ repo = TRUE
    /\ base_input = <<>>
    /\ resolvable = {}
    /\ tried = <<>>
    /\ base_index = 1
    /\ FileIdle

\* lines 257-269
SearchCommit ==
    /\ pc = "search_commit_file"
    /\ Ends(SearchCommitFile(commit_valid, current_blob, regex_str, abort))
    /\ pc' = "done"
    /\ UNCHANGED <<compareVars, abort, searchVars, repoVars, checkVars,
                   mergeVars, turnVars, unitVars>>

NextSearchCommit == SearchCommit

SpecSearchCommit == InitSearchCommit /\ [][NextSearchCommit]_vars

\* the call fails: the commit is not valid, the file is not in its tree, or
\* the pattern is found in the content neither by the regex search nor as a
\* literal
SearchFails ==
    \/ ~commit_valid
    \/ ~current_blob.exists
    \/ /\ ~(/\ ~ReSearch(regex_str, current_blob.data).raised
            /\ ReSearch(regex_str, current_blob.data).found)
       /\ ~Contains(current_blob.data, regex_str)

\* C17: a failing search_commit_file reports one error and returns the empty
\* string when abort is false, and ends in sys.exit(1) when abort is true; with
\* abort false no call ends the process
C17_SearchFailureFollowsAbort ==
    pc = "done" =>
        /\ ~abort => outcome = "returned"
        /\ SearchFails =>
             IF abort THEN outcome = "exit1"
             ELSE retval = <<>> /\ Len(errors) = 1

(***************************************************************************)
(* resolve_files_to_regexes_mismatch on its own: up to MaxFiles files, up   *)
(* to MaxFiles regexes, whatever the two lengths.                           *)
(***************************************************************************)
\* extra regexes kept
resolve_files_to_regexes_untruncated(fs, rxs, dflt) ==
    IF Len(rxs) < Len(fs)
    THEN rxs \o [i \in 1..(Len(fs) - Len(rxs)) |-> dflt]
    ELSE rxs

\* lines 300-317
resolve_files_to_regexes_mismatch(fs, rxs, dflt) ==
    IF Len(rxs) < Len(fs)
    THEN rxs \o [i \in 1..(Len(fs) - Len(rxs)) |-> dflt]
    ELSE IF Len(rxs) > Len(fs)
    THEN SubSeq(rxs, 1, Len(fs))
    ELSE rxs

SomeRegexes == {<<"a">>, <<"b">>, <<"\\", "d">>}

InitResolve ==
    /\ pc = "resolve_files_to_regexes_mismatch"
    /\ outcome = "running"
    /\ retval = <<>>
    /\ errors = <<>>
    /\ oks = 0
    /\ abort = FALSE
    /\ ArgsIdle
    /\ files \in {[i \in 1..n |-> i] : n \in 0..MaxFiles}
    /\ file_regexes \in UNION {[1..n -> SomeRegexes] : n \in 0..MaxFiles}
    /\ files_in = files
    /\ file_regexes_in = file_regexes
    /\ base_blob = NoBlob
    /\ current_blob = NoBlob
    /\ in_scope = TRUE
    /\ other_diff = FALSE
    /\ version_file = 0
    /\ version_regex = <<>>
    /\ old_version = <<>>
    /\ new_version = <<>>
    /\ error_detected = FALSE
    /\ sync_index = 1
    /\ diffs = 0
    /\ reads = <<>>
    /\ phases = <<>>
    /\ MergeIdle
    /\ TurnIdle
    /\ commit_valid = TRUE
    /\ default_regex \in SomeRegexes
    /\ repo = TRUE
    /\ base_input = <<>>
    /\ resolvable = {}
    /\ tried = <<>>
    /\ base_index = 1
    /\ FileIdle

\* lines 300-317: the call builds new lists and leaves its arguments alone
ResolveMismatch ==
    /\ pc = "resolve_files_to_regexes_mismatch"
    /\ Ends(Returned(resolve_files_to_regexes_mismatch(files, file_regexes,
                                                       default_regex), 0))
    /\ pc' = "done"
    /\ UNCHANGED <<compareVars, abort, searchVars, repoVars, checkVars,
                   mergeVars, turnVars, unitVars>>

NextResolve == ResolveMismatch

SpecResolve == InitResolve /\ [][NextResolve]_vars

\* C18: the list returned is as long as the files, holds the given regexes
\* in their places up to that length and the default regex in every place
\* beyond them, is the given list when the lengths match, and the given list
\* is as it was
C18_OneRegexPerFile ==
    pc = "done" =>
        /\ outcome = "returned"
        /\ Len(retval) = Len(files_in)
        /\ \A i \in 1..Len(files_in) :
             retval[i] = IF i <= Len(file_regexes_in) THEN file_regexes_in[i]
                         ELSE default_regex
        /\ Len(file_regexes_in) = Len(files_in) => retval = file_regexes_in
        /\ file_regexes = file_regexes_in
        /\ files = files_in

\* one regex for three files: the default regex twice behind it
C18_Witness ==
    /\ pc = "done"
    /\ Len(files_in) = 3
    /\ file_regexes_in = <<<<"a">>>>
    /\ default_regex = <<"b">>
    /\ retval = <<<<"a">>, <<"b">>, <<"b">>>>

(***************************************************************************)
(* get_base_commit on its own.  A reference stands for the commit it       *)
(* resolves to; repo.commit() raises BadName for a reference outside       *)
(* resolvable.  base_input is "None", "" or a reference.                   *)
(***************************************************************************)
\* the defaults get_base_commit's docstring and the --base help list
BASES_IF_NONE == <<"origin/main", "origin/master">>

Refs == {"origin/main", "origin/master", "origin/idk", "v1"}

ErrInvalidRepo == "Invalid GitPython repo provided!"
ErrNoBase == "No VERSION_BASE provided, and default bases not valid!"

\* repo.commit(ref): the commit, or BadName
Commit(ref) ==
    [ret |-> ref, errs |-> <<>>, oks |-> 0, exit |-> FALSE,
     raised |-> ref \notin resolvable]

InitBase ==
    /\ pc = "get_base_commit"
    /\ outcome = "running"
    /\ retval = "None"
    /\ errors = <<>>
    /\ oks = 0
    /\ abort = TRUE
    /\ ArgsIdle
    /\ CheckIdle
    /\ MergeIdle
    /\ TurnIdle
    /\ commit_valid = TRUE
    /\ default_regex = <<>>
    /\ repo \in BOOLEAN
    /\ base_input \in {"None", ""} \cup Refs
    /\ resolvable \in SUBSET Refs
    /\ tried = <<>>
    /\ base_index = 1
    /\ FileIdle

baseFrame == <<compareVars, abort, searchVars, repoVars, checkVars, mergeVars,
               turnVars, commit_valid, default_regex, repo, base_input,
               resolvable, fileVars>>

\* lines 71-75: a base given is resolved outside the try, its BadName is not
\* caught
GetBaseCommit ==
    /\ pc = "get_base_commit"
    /\ IF ~repo
       THEN Ends(error(ErrInvalidRepo, TRUE)) /\ pc' = "done" /\ UNCHANGED tried
       ELSE IF base_input \notin {"None", ""}
       THEN /\ Ends(Commit(base_input))
            /\ pc' = "done"
            /\ tried' = Append(tried, base_input)
       ELSE pc' = "possible_base" /\ UNCHANGED <<resultVars, tried>>
    /\ UNCHANGED <<baseFrame, base_index>>

\* the loop given up at the first default that does not resolve
TryBaseOnce ==
    /\ pc = "possible_base"
    /\ base_index <= Len(BASES_IF_NONE)
    /\ tried' = Append(tried, BASES_IF_NONE[base_index])
    /\ IF BASES_IF_NONE[base_index] \in resolvable
       THEN /\ Ends(Commit(BASES_IF_NONE[base_index]))
            /\ pc' = "done"
            /\ UNCHANGED base_index
       ELSE /\ Ends(error(ErrNoBase, TRUE))
            /\ pc' = "done"
            /\ UNCHANGED base_index
    /\ UNCHANGED baseFrame

\* lines 78-84: one turn of the loop over BASES_IF_NONE
TryBase ==
    /\ pc = "possible_base"
    /\ base_index <= Len(BASES_IF_NONE)
    /\ tried' = Append(tried, BASES_IF_NONE[base_index])
    /\ IF BASES_IF_NONE[base_index] \in resolvable
       THEN /\ Ends(Commit(BASES_IF_NONE[base_index]))
            /\ pc' = "done"
            /\ UNCHANGED base_index
       ELSE /\ base_index' = base_index + 1
            /\ UNCHANGED <<pc, resultVars>>
    /\ UNCHANGED baseFrame

\* line 85
NoValidBase ==
    /\ pc = "possible_base"
    /\ base_index > Len(BASES_IF_NONE)
    /\ Ends(error(ErrNoBase, TRUE))
    /\ pc' = "done"
    /\ UNCHANGED <<baseFrame, tried, base_index>>

NextBase == GetBaseCommit \/ TryBase \/ NoValidBase

SpecBase == InitBase /\ [][NextBase]_vars

IsPrefix(s, t) == Len(s) <= Len(t) /\ s = SubSeq(t, 1, Len(s))

BaseGiven == base_input \notin {"None", ""}

\* C19: without a repo get_base_commit ends in sys.exit(1) after one error
\* and resolves nothing; with a base given it resolves that reference and no
\* other; with none it tries the defaults in their order, every one tried
\* before the last was rejected, returns the commit of the first that
\* resolves, and ends in sys.exit(1) only when all were tried and rejected
C19_BaseResolutionOrder ==
    /\ ~repo =>
         /\ tried = <<>>
         /\ pc = "done" => (outcome = "exit1" /\ errors = <<ErrInvalidRepo>>)
    /\ (repo /\ BaseGiven) =>
         /\ IsPrefix(tried, <<base_input>>)
         /\ pc = "done" =>
              /\ tried = <<base_input>>
              /\ outcome # "exit1"
              /\ outcome = "returned" => retval = base_input
              /\ base_input \in resolvable => outcome = "returned"
    /\ (repo /\ ~BaseGiven) =>
         /\ IsPrefix(tried, BASES_IF_NONE)
         /\ \A i \in 1..(Len(tried) - 1) : tried[i] \notin resolvable
         /\ pc = "done" =>
              /\ outcome \in {"returned", "exit1"}
              /\ outcome = "returned" =>
                   /\ retval = tried[Len(tried)]
                   /\ retval \in resolvable
              /\ outcome = "exit1" =>
                   /\ tried = BASES_IF_NONE
                   /\ \A i \in DOMAIN tried : tried[i] \notin resolvable
                   /\ errors = <<ErrNoBase>>

\* no base given, origin/main rejected and origin/master resolved: both were
\* tried in this order and the second is returned
C19_Witness ==
    /\ pc = "done"
    /\ repo
    /\ base_input = "None"
    /\ "origin/main" \notin resolvable
    /\ tried = <<"origin/main", "origin/master">>
    /\ outcome = "returned"
    /\ retval = "origin/master"

\* the place of a phase in the order NoFiles, ScopeDiff, PrimaryVersionCheck,
\* SyncFileCheck, Done
Rank(p) ==
    CASE p = "NoFiles" -> 1
      [] p = "ScopeDiff" -> 2
      [] p = "PrimaryVersionCheck" -> 3
      [] p = "SyncFileCheck" -> 4
      [] p = "Done" -> 5

\* the phases entered so far begin with NoFiles, each is the one after the
\* phase before it or Done, and do_check is in the last of them
PhasesInOrder ==
    /\ phases # <<>>
    /\ phases[1] = "NoFiles"
    /\ pc = phases[Len(phases)]
    /\ \A i \in 1..(Len(phases) - 1) :
         \/ Rank(phases[i + 1]) = Rank(phases[i]) + 1
         \/ phases[i + 1] = "Done" /\ phases[i] # "Done"

\* the primary check passed: the primary file is in the current commit, the
\* new version parses, and the old version is empty or parses and precedes it
PrimaryPassed ==
    /\ current_blob.exists
    /\ ParseVersion(new_version).ok
    /\ \/ old_version = <<>>
       \/ /\ ParseVersion(old_version).ok
          /\ Precedes(ParseVersion(old_version), ParseVersion(new_version))

\* no synchronized file is examined unless the primary check passed, and a
\* check that ends in PrimaryVersionCheck ends in failure
PrimaryFailureIsTerminal ==
    /\ Entered("SyncFileCheck") => PrimaryPassed
    /\ ~Entered("SyncFileCheck") => SyncReads = <<>>
    /\ (pc = "Done" /\ Entered("PrimaryVersionCheck") /\ ~Entered("SyncFileCheck"))
         => (outcome \in {"exit1", "raised"} /\ ~PrimaryPassed)

\* C20: do_check enters its phases in the order NoFiles, ScopeDiff,
\* PrimaryVersionCheck, SyncFileCheck, Done, each at most once and never an
\* earlier one, a failure of the primary check ends it in failure before any
\* synchronized file is examined, and every run reaches Done
C20_PhasesInOrderAndTerminates ==
    [](PhasesInOrder /\ PrimaryFailureIsTerminal) /\ <>(pc = "Done")

\* a new version that is not greater, with a synchronized file waiting: the
\* check ends from PrimaryVersionCheck in sys.exit(1), the file not examined
C20_Witness ==
    /\ phases = <<"NoFiles", "ScopeDiff", "PrimaryVersionCheck", "Done">>
    /\ outcome = "exit1"
    /\ \E i \in DOMAIN errors : errors[i] = ErrNotGreater
    /\ Len(files) > 0
    /\ SyncReads = <<>>

(***************************************************************************)
(* resolve_version_conflicts step by step, called twice on one file with    *)
(* the same VersionFile and strategy: the file is missing or holds up to    *)
(* MaxRegions conflict regions, each followed by another line.              *)
(***************************************************************************)
MaxRegions == 2

\* the VersionFile of lines 175-183 for the pattern "^1.0.0"
SplitFiles ==
    {[path |-> 1, current_regex |-> <<"^">> \o V100,
      incoming_regex |-> <<"^">> \o V110]}

\* the bodies of a region: version lines alone, with other text on both sides
\* or on one, in unequal numbers, no version line at all, a version at the
\* end of a longer line and a version in front of a bare carriage return
RegionBodies ==
    {<<Line(V100), Line(V110)>>,
     <<Line(<<"x">> \o V100) \o Line(V100), Line(V110)>>,
     <<V100 \o <<"\r">> \o Line(<<"z">>), Line(V110)>>,
     <<Line(V110), Line(V100)>>,
     <<Line(<<"x">>) \o Line(V100), Line(V110)>>,
     <<Line(V100), Line(V110) \o Line(<<"y">>)>>,
     <<Line(<<"x">>) \o Line(V100), Line(<<"y">>) \o Line(V110)>>,
     <<Line(V100) \o Line(V100), Line(V110)>>,
     <<Line(<<"x">>), Line(<<"y">>)>>}

RECURSIVE RegionsText(_, _)
RegionsText(regions, k) ==
    IF k > Len(regions) THEN <<>>
    ELSE Conflict(regions[k][1], regions[k][2]) \o Line(<<"s">>)
           \o RegionsText(regions, k + 1)

FileTextsOf(n) == {RegionsText(rs, 1) : rs \in UNION {[1..k -> RegionBodies] : k \in 0..n}}

\* the strategies do_merge hands to the resolver
ResolverStrategies == {"CURRENT", "INCOMING", "BOTH", "NEITHER"}

InitFile ==
    /\ pc = "resolve_version_conflicts"
    /\ outcome = "running"
    /\ retval = "None"
    /\ errors = <<>>
    /\ oks = 0
    /\ abort = FALSE
    /\ ArgsIdle
    /\ CheckIdle
    /\ MergeIdle
    /\ turn_conflict = <<>>
    /\ turn_file \in TurnFiles \cup SplitFiles
    /\ turn_strategy \in ResolverStrategies
    /\ turn_splits = <<>>
    /\ turn_result = <<>>
    /\ turn_text = <<>>
    /\ commit_valid = TRUE
    /\ default_regex = <<>>
    /\ repo = TRUE
    /\ base_input = <<>>
    /\ resolvable = {}
    /\ tried = <<>>
    /\ base_index = 1
    /\ work_file \in {NoFile} \cup
           {[exists |-> TRUE, data |-> t] : t \in FileTextsOf(MaxRegions)}
    /\ file_conflicts = <<>>
    /\ parsed_from = <<>>
    /\ conflict_index = 0
    /\ applications = <<>>
    /\ file_staged = FALSE
    /\ runs = 0
    /\ first_text = <<>>

fileFrame == <<compareVars, abort, searchVars, repoVars, checkVars, mergeVars,
               commit_valid, default_regex, baseVars, turn_file, turn_strategy>>

\* lines 202-209: the file is missing, or its text is read
ReadFile ==
    /\ pc = "resolve_version_conflicts"
    /\ IF ~work_file.exists
       THEN /\ Ends(error(ErrNoVersionFile, FALSE))
            /\ retval' = "None"
            /\ pc' = "done"
            /\ runs' = runs + 1
            /\ UNCHANGED turn_text
       ELSE /\ turn_text' = work_file.data
            /\ pc' = "parse_merge_conflicts"
            /\ UNCHANGED <<resultVars, runs>>
    /\ UNCHANGED <<fileFrame, turn_conflict, turn_splits, turn_result,
                   work_file, file_conflicts, parsed_from, conflict_index,
                   applications, file_staged, first_text>>

\* line 211
ParseConflicts ==
    /\ pc = "parse_merge_conflicts"
    /\ file_conflicts' = parse_merge_conflicts(turn_text)
    /\ parsed_from' = turn_text
    /\ conflict_index' = Len(file_conflicts')
    /\ pc' = "conflict"
    /\ UNCHANGED <<fileFrame, resultVars, turn_conflict, turn_splits,
                   turn_result, turn_text, work_file, applications,
                   file_staged, runs, first_text>>

\* one call of apply_merge: the conflict, the text the list was parsed from
\* and the text before and after the call
Application(c, from, before, after) ==
    [run |-> runs + 1, conflict |-> c, parsed_from |-> from,
     before |-> before, after |-> after]

\* lines 214-218, on the version conflict lines of the conflict
ResolveTurn(c, splits) ==
    /\ turn_conflict' = c
    /\ turn_splits' = splits.lines
    /\ IF Len(splits.lines) > 0
       THEN /\ turn_result' = get_split_merge_result(c, splits.lines, turn_strategy)
            /\ turn_text' = apply_merge(c, turn_text, turn_result')
            /\ applications' = Append(applications,
                                      Application(c, parsed_from, turn_text,
                                                  turn_text'))
       ELSE UNCHANGED <<turn_result, turn_text, applications>>

\* the conflicts taken first to last
ForwardConflict(conflicts, left) == conflicts[Len(conflicts) - left + 1]

\* line 212, reversed(conflicts): the conflict taken when left are left
ReversedConflict(conflicts, left) == conflicts[left]

\* lines 212-218: one turn of the loop over reversed(conflicts)
ResolveConflict ==
    /\ pc = "conflict"
    /\ conflict_index >= 1
    /\ ResolveTurn(ReversedConflict(file_conflicts, conflict_index),
                   parse_version_conflict_lines(
                       turn_file,
                       ReversedConflict(file_conflicts, conflict_index)))
    /\ conflict_index' = conflict_index - 1
    /\ UNCHANGED <<fileFrame, resultVars, pc, work_file, file_conflicts,
                   parsed_from, file_staged, runs, first_text>>

\* lines 220-221
WriteFile ==
    /\ pc = "conflict"
    /\ conflict_index = 0
    /\ work_file' = [exists |-> TRUE, data |-> turn_text]
    /\ pc' = "staged"
    /\ UNCHANGED <<fileFrame, resultVars, turn_conflict, turn_splits,
                   turn_result, turn_text, file_conflicts, parsed_from,
                   conflict_index, applications, file_staged, runs, first_text>>

\* the list of line 211 kept for the staging decision
StaleConflicts(file_text, conflicts) == conflicts

\* line 223: the conflicts of the text that was written, whatever the list of
\* line 211 held
RemainingConflicts(file_text, conflicts) == parse_merge_conflicts(file_text)

\* lines 223-230
StageFile ==
    /\ pc = "staged"
    /\ file_conflicts' = RemainingConflicts(turn_text, file_conflicts)
    /\ parsed_from' = turn_text
    /\ file_staged' = (file_staged \/ file_conflicts' = <<>>)
    /\ Ends(Returned("None", 0))
    /\ pc' = "done"
    /\ runs' = runs + 1
    /\ UNCHANGED <<fileFrame, turn_conflict, turn_splits, turn_result,
                   turn_text, work_file, conflict_index, applications,
                   first_text>>

\* the second call, on the file the first call left
CallAgain ==
    /\ pc = "done"
    /\ runs = 1
    /\ first_text' = work_file.data
    /\ pc' = "resolve_version_conflicts"
    /\ outcome' = "running"
    /\ UNCHANGED <<fileFrame, retval, errors, oks, turn_conflict, turn_splits,
                   turn_result, turn_text, work_file, file_conflicts,
                   parsed_from, conflict_index, applications, file_staged,
                   runs>>

NextFile ==
    \/ ReadFile
    \/ ParseConflicts
    \/ ResolveConflict
    \/ WriteFile
    \/ StageFile
    \/ CallAgain

SpecFile == InitFile /\ [][NextFile]_vars

\* the text of an application's conflict is what the file text holds at the
\* conflict's offsets when apply_merge is called
RegionIntact(a) ==
    SubSeq(a.before, a.conflict.start_index + 1, a.conflict.end_index)
        = a.conflict.text

\* apply_merge left the text before start_index and after end_index as it was
OutsideKept(a) ==
    /\ Len(a.after) >= Len(a.before) - Len(a.conflict.text)
    /\ SubSeq(a.after, 1, a.conflict.start_index)
         = SubSeq(a.before, 1, a.conflict.start_index)
    /\ Drop(a.after, Len(a.after) - (Len(a.before) - a.conflict.end_index) + 1)
         = Drop(a.before, a.conflict.end_index + 1)

\* the applications of one call come in descending start offset
DescendingOffsets ==
    \A i, j \in 1..Len(applications) :
        (i < j /\ applications[i].run = applications[j].run)
            => applications[i].conflict.start_index
                 > applications[j].conflict.start_index

\* C21: in resolve_version_conflicts the conflicts of one parse are applied
\* from the highest start offset to the lowest, at each application the file
\* text between the conflict's offsets is still the conflict's parsed text,
\* and the replacement leaves the text outside that region as it was.
C21_AppliedLastToFirstOnIntactRegions ==
    /\ DescendingOffsets
    /\ \A i \in 1..Len(applications) :
           RegionIntact(applications[i]) /\ OutsideKept(applications[i])

\* two conflicts of one parse were both applied, and the first application
\* changed the length of the text
C21_Witness ==
    \E i, j \in 1..Len(applications) :
        /\ i < j
        /\ applications[i].run = applications[j].run
        /\ Len(applications[i].after) # Len(applications[i].before)

\* the text up to the end of an application's conflict is what the parse read
AheadOfRewrites(a) ==
    SubSeq(a.before, 1, a.conflict.end_index)
        = SubSeq(a.parsed_from, 1, a.conflict.end_index)

\* the statement of C22 as written: a conflict is applied only to the very
\* text its list was parsed from
C22_ReparsedAfterEveryMutation ==
    \A i \in 1..Len(applications) :
        applications[i].parsed_from = applications[i].before

\* C22: within one call of resolve_version_conflicts the list parsed at line
\* 211 is used for the whole loop, also after the text was rewritten; every
\* conflict that is used lies ahead of all rewritten text, so the text up to
\* its end offset is still the text that was parsed; the list is parsed again
\* from the written text before the file is staged.
C22_UsedAheadOfRewritesThenReparsed ==
    /\ \A i \in 1..Len(applications) : AheadOfRewrites(applications[i])
    /\ (pc = "done" /\ work_file.exists)
           => /\ parsed_from = work_file.data
              /\ file_conflicts = parse_merge_conflicts(work_file.data)

\* a conflict was applied to a text other than the one it was parsed from,
\* and the call is over
C22_Witness ==
    /\ pc = "done"
    /\ runs = 1
    /\ \E i \in 1..Len(applications) :
           applications[i].parsed_from # applications[i].before

\* the strategies the calls of the resolver were given
GivenStrategies == {resolutions[i].strategy : i \in DOMAIN resolutions}

\* a step that changes the strategy is the one of lines 165-172, it is taken
\* before any call of the resolver and turns HIGHER or LOWER into CURRENT or
\* INCOMING
StrategyReplaced ==
    merge_strategy' # merge_strategy =>
        /\ pc = "SelectStrategy"
        /\ resolutions = <<>>
        /\ merge_strategy = merge_strategy_in
        /\ merge_strategy \in {"HIGHER", "LOWER"}
        /\ merge_strategy' \in {"CURRENT", "INCOMING"}

\* C23: in do_merge a requested HIGHER or LOWER is replaced once, before any
\* file is resolved, by CURRENT or INCOMING; only the primary file was read
\* for it; the resolver is never called with HIGHER or LOWER, every call of a
\* run is given the same strategy, and a requested strategy other than HIGHER
\* and LOWER is the one given.
C23_StrategyDecidedOnceForAllFiles ==
    /\ [][StrategyReplaced]_vars
    /\ [](/\ GivenStrategies \subseteq {merge_strategy}
          /\ GivenStrategies \cap {"HIGHER", "LOWER"} = {}
          /\ \A i \in DOMAIN reads : reads[i].path = files_in[1]
          /\ (resolutions # <<>> /\ merge_strategy_in \notin {"HIGHER", "LOWER"})
                => merge_strategy = merge_strategy_in)

\* HIGHER or LOWER was requested and two files were resolved
C23_Witness ==
    /\ merge_strategy_in \in {"HIGHER", "LOWER"}
    /\ Len(resolutions) = 2
    /\ resolutions[1].path # resolutions[2].path
    /\ pc = "Done"

(***************************************************************************)
(* The same turn on regions whose bodies hold a version text at the end of *)
(* a longer line ("x1.0.0\n") or in front of a bare carriage return        *)
(* ("1.0.0\rz\n"), for a pattern anchored with "^".                        *)
(***************************************************************************)
MaxSplitLines == 3

\* the text of a version, of a longer line ending in it, and of a line that
\* str.splitlines breaks after the version
SplitLinesOf(version) ==
    {Line(version), Line(<<"x">> \o version), version \o <<"\r">> \o Line(<<"z">>)}

BodiesOf(version, n) == UNION {[1..k -> SplitLinesOf(version)] : k \in 0..n}

InitSplit ==
    /\ pc = "parse_version_conflict_lines"
    /\ outcome = "running"
    /\ retval = "None"
    /\ errors = <<>>
    /\ oks = 0
    /\ abort = FALSE
    /\ ArgsIdle
    /\ CheckIdle
    /\ MergeIdle
    /\ UnitIdle
    /\ \E cur \in BodiesOf(V100, MaxSplitLines), inc \in BodiesOf(V110, MaxSplitLines) :
         /\ turn_conflict = RegionConflict(<<Line(<<"x">>)>>, cur, inc)
         /\ turn_text = Join(RegionLines(<<Line(<<"x">>)>>, cur, inc), 1,
                             Len(RegionLines(<<Line(<<"x">>)>>, cur, inc)))
    /\ turn_file \in SplitFiles
    /\ turn_strategy \in MergeStrategies
    /\ turn_splits = <<>>
    /\ turn_result = <<>>

SpecSplit == InitSplit /\ [][NextTurn]_vars

\* what is left of a body after the splits at the first k version lines of
\* its side (1 the current side, 2 the incoming one)
RECURSIVE RestAfter(_, _, _, _)
RestAfter(body, splits, side, k) ==
    IF k = 0 THEN body
    ELSE Split(RestAfter(body, splits, side, k - 1), splits[k][side]).tail

\* the text in front of the k-th version line of a side
Preceding(body, splits, side, k) ==
    Split(RestAfter(body, splits, side, k - 1), splits[k][side]).head

IncompleteLine(text) == text # <<>> /\ text[Len(text)] # "\n"

\* the k-th pair breaks a line: on the current or the incoming side the text
\* in front of the matched line, or the matched line, does not end a line
BreaksLine(conflict, splits, k) ==
    \/ IncompleteLine(Preceding(conflict.current, splits, 1, k))
    \/ IncompleteLine(Preceding(conflict.incoming, splits, 2, k))
    \/ IncompleteLine(splits[k][1])
    \/ IncompleteLine(splits[k][2])

PairBreaksLine(k) == BreaksLine(turn_conflict, turn_splits, k)

\* C24: when a pair of version lines breaks a line, get_split_merge_result
\* returns the text of the conflict as it was parsed, with nothing of the
\* pairs before it, and after apply_merge the region of the file is what it
\* was.
C24_SplitRejectedAsAWhole ==
    (/\ pc \in {"apply_merge", "done"}
     /\ \E k \in DOMAIN turn_splits : PairBreaksLine(k))
        => /\ turn_result = turn_conflict.text
           /\ pc = "done" => RegionAfter = turn_conflict.text

\* the first pair was accepted, the second breaks a line by the text in
\* front of it, and the turn is over
C24_Witness ==
    /\ pc = "done"
    /\ Len(turn_splits) >= 2
    /\ ~PairBreaksLine(1)
    /\ IncompleteLine(Preceding(turn_conflict.current, turn_splits, 1, 2))
    /\ turn_strategy = "CURRENT"

\* the lines of a text read as conflict regions of the turn's markers: the
\* lines on the current side of a region, those on the incoming side and
\* those outside, each in their order; ok when every marker line is in place
RECURSIVE Sides(_, _, _, _)
Sides(lines, k, state, acc) ==
    IF k > Len(lines) THEN [acc EXCEPT !.ok = acc.ok /\ state = "out"]
    ELSE IF lines[k] = turn_conflict.start_line
    THEN Sides(lines, k + 1, "cur", [acc EXCEPT !.ok = acc.ok /\ state = "out"])
    ELSE IF lines[k] = Divider
    THEN Sides(lines, k + 1, "inc", [acc EXCEPT !.ok = acc.ok /\ state = "cur"])
    ELSE IF lines[k] = turn_conflict.end_line
    THEN Sides(lines, k + 1, "out", [acc EXCEPT !.ok = acc.ok /\ state = "inc"])
    ELSE Sides(lines, k + 1, state,
               [acc EXCEPT ![state] = Append(acc[state], lines[k])])

SidesOf(text) ==
    Sides(splitlines(text), 1, "out",
          [cur |-> <<>>, inc |-> <<>>, out |-> <<>>, ok |-> TRUE])

\* the lines of a body less its paired version lines: for each pair in turn,
\* the first line after the one before that is the pair's line of the side
RECURSIVE Unpaired(_, _, _, _)
Unpaired(lines, splits, side, k) ==
    IF lines = <<>> THEN <<>>
    ELSE IF k <= Len(splits) /\ lines[1] = splits[k][side]
    THEN Unpaired(Tail(lines), splits, side, k + 1)
    ELSE <<lines[1]>> \o Unpaired(Tail(lines), splits, side, k)

\* the lines the strategy leaves on a side of the regions of the result: all
\* lines of the body when the pairs are wrapped in markers again
KeptOnSide(body, side) ==
    IF turn_strategy \in {"CURRENT", "INCOMING", "BOTH", "NEITHER"}
    THEN Unpaired(splitlines(body), turn_splits, side, 1)
    ELSE splitlines(body)

\* the split of the turn was made and accepted
SplitAccepted ==
    /\ TurnDone
    /\ Len(turn_splits) > 0
    /\ \A k \in DOMAIN turn_splits : ~PairBreaksLine(k)

SidesKept(sides) ==
    /\ sides.ok
    /\ sides.cur = KeptOnSide(turn_conflict.current, 1)
    /\ sides.inc = KeptOnSide(turn_conflict.incoming, 2)
    /\ sides.out = splitlines(IF turn_strategy \in {"CURRENT", "INCOMING",
                                                    "BOTH", "NEITHER"}
                              THEN PairTexts(turn_strategy, turn_splits, 1)
                              ELSE <<>>)

\* C25: when a split is accepted, whatever the strategy, the result is made of
\* the pairs' texts and of conflict regions with the start and end line of the
\* original region; the lines on the current side of these regions are the
\* current body's lines that are not paired, each once and in their order,
\* and the same on the incoming side.
C25_UnpairedTextKeptOnItsSide ==
    SplitAccepted => SidesKept(SidesOf(RegionAfter))

\* a split was accepted that leaves text on both sides of a region, with a
\* strategy that takes the pairs out of the markers
C25_Witness ==
    /\ SplitAccepted
    /\ turn_strategy = "BOTH"
    /\ Len(turn_splits) = 2
    /\ SidesOf(RegionAfter).cur # <<>>
    /\ SidesOf(RegionAfter).inc # <<>>

\* the text apply_merge put in the place of an application's conflict
ResultOf(a) ==
    SubSeq(a.after, a.conflict.start_index + 1,
           Len(a.after) - (Len(a.before) - a.conflict.end_index))

\* the segments around the paired lines of a conflict: the text in front of
\* each pair on the two sides, and the text behind the last pair
Segments(conflict, splits) ==
    [k \in 1..(Len(splits) + 1) |->
        IF k <= Len(splits)
        THEN <<Preceding(conflict.current, splits, 1, k),
               Preceding(conflict.incoming, splits, 2, k)>>
        ELSE <<RestAfter(conflict.current, splits, 1, Len(splits)),
               RestAfter(conflict.incoming, splits, 2, Len(splits))>>]

OneSided(seg) == (seg[1] = <<>>) # (seg[2] = <<>>)

\* the number of start lines of the conflict in a text
StartLines(conflict, lines) ==
    Cardinality({j \in DOMAIN lines : lines[j] = conflict.start_line})

\* in the result of an application every segment with text is a region of its
\* own, one with text on one side only has nothing on the other side, and a
\* segment without text leaves no region
SegmentsWrapped(a, segs) ==
    /\ \A k \in DOMAIN segs :
         segs[k] # <<<<>>, <<>>>> =>
            Contains(ResultOf(a),
                     a.conflict.start_line \o segs[k][1] \o Divider
                       \o segs[k][2] \o a.conflict.end_line)
    /\ StartLines(a.conflict, splitlines(ResultOf(a)))
         = Cardinality({k \in DOMAIN segs : segs[k] # <<<<>>, <<>>>>})

SplitsOf(a) == parse_version_conflict_lines(turn_file, a.conflict).lines

\* the split of an application was accepted: no pair of its splits breaks a
\* line
Accepted(a, splits) ==
    \A k \in DOMAIN splits : ~BreaksLine(a.conflict, splits, k)

\* the segments of an application are wrapped, and when one of them has text
\* on one side only the call leaves a conflict in the file and does not stage
\* it
OneSidedKeepsMarkers(a, segs) ==
    /\ SegmentsWrapped(a, segs)
    /\ (pc = "done" /\ \E k \in DOMAIN segs : OneSided(segs[k]))
          => /\ ~file_staged
             /\ parse_merge_conflicts(work_file.data) # <<>>

AcceptedKeepsMarkers(a, splits) ==
    Accepted(a, splits) => OneSidedKeepsMarkers(a, Segments(a.conflict, splits))

\* C26: when a split is accepted, a segment around the paired version lines
\* is emitted as nothing only when it is empty on both sides; with text on
\* one side it is wrapped in the conflict's markers with an empty other side,
\* and a file resolved so still holds a conflict after the call and is not
\* staged.
C26_OneSidedSegmentKeepsMarkers ==
    \A i \in DOMAIN applications :
        AcceptedKeepsMarkers(applications[i], SplitsOf(applications[i]))

\* some segment has text on one side only, and none has text on both
OnlyOneSided(segs) ==
    /\ \E k \in DOMAIN segs : OneSided(segs[k])
    /\ \A k \in DOMAIN segs : OneSided(segs[k]) \/ segs[k] = <<<<>>, <<>>>>

AcceptedOneSided(a, splits) ==
    Accepted(a, splits) /\ OnlyOneSided(Segments(a.conflict, splits))

\* a call is over that resolved a conflict with text on one side of a segment
\* and none on the other side of any
C26_Witness ==
    /\ pc = "done"
    /\ runs = 1
    /\ Len(applications) = 1
    /\ AcceptedOneSided(applications[1], SplitsOf(applications[1]))

\* the remaining files that have no regex at their position
Surplus == {files[i] : i \in (Len(file_regexes) + 1)..Len(files)}

ReadPaths == {reads[i].path : i \in DOMAIN reads}

\* C27: do_check pairs the files left after the primary one with the regexes
\* left, position by position; a file without a regex at its position is
\* never read, no error is reported for it, and as many files are examined
\* as there are pairs.
C27_SurplusFilesNeverExamined ==
    /\ Surplus \cap ReadPaths = {}
    /\ Len(SyncReads) <= Min(Len(files), Len(file_regexes))
    /\ Len(SelectSeq(errors, LAMBDA e : e = ErrNeedsToMatch)) <= Len(SyncReads)
    /\ (pc = "Done" /\ Entered("SyncFileCheck") /\ outcome # "raised")
          => Len(SyncReads) = Min(Len(files), Len(file_regexes))

\* do_check reported success with three tracked files and two regexes: the
\* third file was not read
C27_Witness ==
    /\ pc = "Done"
    /\ Succeeded
    /\ Entered("SyncFileCheck")
    /\ Len(files_in) = 3
    /\ Len(file_regexes_in) = 2
    /\ Len(SyncReads) = 1
    /\ 3 \notin ReadPaths

\* the current version is the greater one for compare_versions: both parse
\* and the incoming one precedes it, or there is no incoming version and the
\* current one parses
CurrentIsBigger ==
    /\ ParseVersion(current_version).ok
    /\ \/ incoming_version = <<>>
       \/ /\ ParseVersion(incoming_version).ok
          /\ Precedes(ParseVersion(incoming_version), ParseVersion(current_version))

\* C28: once do_merge has replaced a requested HIGHER or LOWER, HIGHER has
\* become CURRENT exactly when the current version is the greater one (or
\* there is no incoming version), and INCOMING otherwise, with equal versions
\* and with a version that does not parse; LOWER the other way round; and the
\* comparison neither exits nor raises: do_merge goes on to the files.
C28_HigherLowerByComparison ==
    /\ (Entered("VersionFiles") /\ merge_strategy_in = "HIGHER")
          => merge_strategy = IF CurrentIsBigger THEN "CURRENT" ELSE "INCOMING"
    /\ (Entered("VersionFiles") /\ merge_strategy_in = "LOWER")
          => merge_strategy = IF CurrentIsBigger THEN "INCOMING" ELSE "CURRENT"
    /\ pc = "VersionFiles" => outcome = "running"
    /\ (pc = "Done" /\ Entered("SelectStrategy")) => Entered("VersionFiles")

\* HIGHER requested with equal versions, and with a current version that does
\* not parse: the incoming side was taken and a file resolved
C28_Witness ==
    /\ merge_strategy_in = "HIGHER"
    /\ merge_strategy = "INCOMING"
    /\ incoming_version = current_version
    /\ ParseVersion(current_version).ok
    /\ resolutions # <<>>
    /\ pc = "Done"

\* the pairs of version lines the resolver finds in a conflict
PairsIn(c) == parse_version_conflict_lines(turn_file, c).lines

\* a call is over that found the file; file_conflicts are the conflicts of
\* the text it left
CallOver == pc = "done" /\ work_file.exists

\* the second call left the text the first call left
SecondRunKeepsText == (CallOver /\ runs = 2) => work_file.data = first_text

\* the statement of C29 as written: the second call leaves the text
\* unchanged, and every conflict a call leaves has no version line to pair on
\* at least one side
C29_IdempotentNoPairLeft ==
    /\ SecondRunKeepsText
    /\ CallOver => \A i \in DOMAIN file_conflicts : PairsIn(file_conflicts[i]) = <<>>

\* C29: a second call of resolve_version_conflicts with the same VersionFile
\* and strategy leaves the text the first call left; every conflict a call
\* leaves either has no version line to pair on at least one side, or has a
\* pair that breaks a line, so that its split is rejected again and the
\* region is replaced by itself.
C29_SecondRunLeavesText ==
    /\ SecondRunKeepsText
    /\ CallOver =>
          \A i \in DOMAIN file_conflicts :
              \/ PairsIn(file_conflicts[i]) = <<>>
              \/ \E k \in DOMAIN PairsIn(file_conflicts[i]) :
                    BreaksLine(file_conflicts[i], PairsIn(file_conflicts[i]), k)
    /\ \A i \in DOMAIN applications :
          applications[i].run = 2 =>
             applications[i].after = applications[i].before

\* the second call is over on a file whose first call resolved one conflict
\* and left regions, one of them with a rejected split
C29_Witness ==
    /\ CallOver
    /\ runs = 2
    /\ \E i \in DOMAIN applications :
          /\ applications[i].run = 1
          /\ applications[i].after # applications[i].before
    /\ \E i \in DOMAIN applications : applications[i].run = 2
    /\ Len(file_conflicts) = 2

\* C30: do_check changes the two lists of its caller: once the empty-input
\* check is passed, on every path and also when it returns early for a diff
\* without changes in scope, each list is the caller's list less its first
\* element; on the empty-input failure both lists are as the caller gave them.
C30_ListsLosePrimaryPair ==
    IF Entered("ScopeDiff")
    THEN /\ files_in # <<>> /\ file_regexes_in # <<>>
         /\ files = Tail(files_in)
         /\ file_regexes = Tail(file_regexes_in)
         /\ version_file = Head(files_in)
         /\ version_regex = Head(file_regexes_in)
    ELSE /\ files = files_in
         /\ file_regexes = file_regexes_in
         /\ pc = "Done" => (outcome = "exit1" /\ (files_in = <<>> \/ file_regexes_in = <<>>))

\* do_check returned True for a diff without changes in scope, and left two
\* of the caller's three files and one of its two regexes
C30_Witness ==
    /\ pc = "Done"
    /\ Succeeded
    /\ ~Entered("PrimaryVersionCheck")
    /\ files_in = <<1, 2, 3>>
    /\ files = <<2, 3>>
    /\ Len(file_regexes_in) = 2
    /\ Len(file_regexes) = 1

====
